---------------------------- MODULE Spec2Model ----------------------------
(***************************************************************************)
(* Model of the SignalFx metric translator (package translation):          *)
(* NewMetricTranslator / validateTranslationRules / createDimensionsMap    *)
(* and MetricTranslator.TranslateDataPoints with its action handlers.      *)
(*                                                                         *)
(* Go values are represented as follows.                                   *)
(*   - a nil pointer or nil map is the empty tuple <<>>; a non-nil one is  *)
(*     the one-element tuple <<v>> holding the pointee / the map;          *)
(*   - a map is a function whose DOMAIN is its key set;                    *)
(*   - []*sfxpb.DataPoint is a sequence of addresses into the variable     *)
(*     heap, so in-place mutation and proto.Clone are distinguishable;     *)
(*   - int64 is an integer of IntWidth bits with two's-complement wrap;    *)
(*   - float64 is a binary floating-point number with a significand of   *)
(*     FloatPrecision bits, narrower than the integer as the 53 bits of    *)
(*     float64 are narrower than int64, written as the rational            *)
(*     <<num, den>> in lowest terms with den > 0; every operation rounds   *)
(*     its exact result to the nearest such number, ties to even; the      *)
(*     exponent range is not bounded, <<1, 0>> and <<-1, 0>> stand for the *)
(*     infinities.                                                         *)
(***************************************************************************)
EXTENDS Integers, Sequences, FiniteSets, TLC

VARIABLES
    rules,                \* the []Rule handed to NewMetricTranslator
    mp,                   \* *MetricTranslator returned (Nil or <<[rules, dimensionsMap]>>)
    err,                  \* error returned by NewMetricTranslator ("nil" = no error)
    pc,                   \* position: "new", "failed", "ready", "loop", "done", "panic"
    heap,                 \* address -> sfxpb.DataPoint
    sfxDataPoints,        \* the slice passed to TranslateDataPoints
    processedDataPoints,  \* the working slice of TranslateDataPoints
    ruleIdx,              \* index of the next rule of the range loop over mp.rules
    prevDataPoints,       \* history: working slice before the last loop iteration
    prevHeap,             \* history: heap before the last loop iteration
    heap0,                \* history: heap when TranslateDataPoints was called
    calls,                \* history: number of calls of TranslateDataPoints so far
    translated,           \* Nil, or <<orig, result>> of the last TranslateDimension
                          \* call since the last call of TranslateDataPoints
    goarch,               \* the architecture the program was built for
    goroutine,            \* the locals of each concurrent call of TranslateDataPoints
    backing,              \* the cells of the backing arrays of their slices
    exporter              \* the trace exporter: its position, the pdata.Traces
                          \* handed to it, and what its push function produced

vars == <<rules, mp, err, pc, heap, sfxDataPoints, processedDataPoints,
          ruleIdx, prevDataPoints, prevHeap, heap0, calls, translated, goarch, goroutine, backing, exporter>>

---------------------------------------------------------------------------
(* Bounds of the model *)

MaxRules == 3

MaxPoints == 3

IntWidth == 8

---------------------------------------------------------------------------
(* Go value helpers *)

Nil == <<>>

Ptr(v) == <<v>>

Deref(p) == p[1]

MapHas(m, k) == m # Nil /\ k \in DOMAIN Deref(m)

MapGet(m, k) == Deref(m)[k]

MapLen(m) == IF m = Nil THEN 0 ELSE Cardinality(DOMAIN Deref(m))

EmptyMap == Ptr([k \in {} |-> ""])

Range(s) == {s[k] : k \in DOMAIN s}

Pow2(n) == 2 ^ n

MaxInt64 == Pow2(IntWidth - 1) - 1

MinInt64 == 0 - Pow2(IntWidth - 1)

\* int64 arithmetic wraps (two's complement)
WrapInt64(x) == ((x + Pow2(IntWidth - 1)) % Pow2(IntWidth)) - Pow2(IntWidth - 1)

Abs(x) == IF x < 0 THEN 0 - x ELSE x

\* Go integer division truncates toward zero
TruncDiv(a, b) ==
    LET q == Abs(a) \div Abs(b)
    IN IF (a < 0) = (b < 0) THEN q ELSE 0 - q

RECURSIVE Gcd(_, _)
Gcd(a, b) == IF b = 0 THEN a ELSE Gcd(b, a % b)

\* bits of the significand of float64 (53, against the 63 value bits of
\* int64), in proportion to IntWidth
FloatPrecision == IntWidth - 2

\* a / (b * 2^e) brought into [2^(FloatPrecision-1), 2^FloatPrecision) by the
\* choice of the exponent e; a and b are positive
RECURSIVE Normalize(_, _, _)
Normalize(a, b, e) ==
    IF a < b * Pow2(FloatPrecision - 1) THEN Normalize(2 * a, b, e - 1)
    ELSE IF a >= b * Pow2(FloatPrecision) THEN Normalize(a, 2 * b, e + 1)
    ELSE <<a, b, e>>

\* the float64 nearest to n / d (round to nearest, ties to even), in lowest terms
Float(n, d) ==
    IF n = 0 THEN <<0, 1>>
    ELSE IF d = 0 THEN <<IF n < 0 THEN 0 - 1 ELSE 1, 0>>
    ELSE LET sign == IF (n < 0) = (d < 0) THEN 1 ELSE 0 - 1
             norm == Normalize(Abs(n), Abs(d), 0)
             q == norm[1] \div norm[2]
             r == norm[1] % norm[2]
             m == IF 2 * r > norm[2] \/ (2 * r = norm[2] /\ q % 2 = 1) THEN q + 1 ELSE q
             e == norm[3]
             num == IF e >= 0 THEN m * Pow2(e) ELSE m
             den == IF e >= 0 THEN 1 ELSE Pow2(0 - e)
             g == Gcd(num, den)
         IN <<sign * (num \div g), den \div g>>

FloatAdd(x, y) == Float(x[1] * y[2] + y[1] * x[2], x[2] * y[2])

FloatMul(x, y) == Float(x[1] * y[1], x[2] * y[2])

FloatDiv(x, y) == Float(x[1] * y[2], x[2] * y[1])

\* float64(int64): the nearest float64, which is n itself only when n fits in
\* the significand
FloatOfInt(n) == Float(n, 1)

\* int64(float64): truncation toward zero when the result is an int64;
\* otherwise the conversion succeeds with a value that depends on the
\* implementation: the smallest int64 on amd64, the nearest int64 on arm64
IntOfFloat(x) ==
    IF x[2] # 0 /\ TruncDiv(x[1], x[2]) >= MinInt64 /\ TruncDiv(x[1], x[2]) <= MaxInt64
    THEN TruncDiv(x[1], x[2])
    ELSE IF goarch = "amd64" \/ x[1] < 0 THEN MinInt64 ELSE MaxInt64

---------------------------------------------------------------------------
(* Actions, enumerations and the Rule struct *)

ActionRenameDimensionKeys == "rename_dimension_keys"
ActionRenameMetrics == "rename_metrics"
ActionMultiplyInt == "multiply_int"
ActionDivideInt == "divide_int"
ActionMultiplyFloat == "multiply_float"
ActionConvertValues == "convert_values"
ActionCopyMetrics == "copy_metrics"
ActionSplitMetric == "split_metric"
ActionAggregateMetric == "aggregate_metric"
ActionCalculateNewMetric == "calculate_new_metric"

MetricOperatorDivision == "/"

MetricValueTypeInt == "int"
MetricValueTypeDouble == "double"

AggregationMethodCount == "count"
AggregationMethodSum == "sum"

\* the zero value of Rule
Rule ==
    [Action |-> "", Mapping |-> Nil, ScaleFactorsInt |-> Nil,
     ScaleFactorsFloat |-> Nil, MetricName |-> "", DimensionKey |-> "",
     DimensionValues |-> Nil, TypesMapping |-> Nil, AggregationMethod |-> "",
     Dimensions |-> <<>>, Operand1Metric |-> "", Operand2Metric |-> "",
     Operator |-> ""]

---------------------------------------------------------------------------
(* validateTranslationRules: the range loop over rules, carrying            *)
(* renameDimentionKeysFound; the result is the first error met, or "nil".   *)

ErrMappingRequired == "field mapping is required"
ErrOnlyOneRenameDimensionKeys == "only one rename_dimension_keys translation rule can be specified"
ErrScaleFactorsIntRequired == "field scale_factors_int is required"
ErrZeroScaleFactor == "scale_factors_int has 0 value"
ErrScaleFactorsFloatRequired == "field scale_factors_float is required"
ErrDimensionValuesRequired == "dimension_values_filer has to be provided if dimension_key is set"
ErrSplitFieldsRequired == "fields metric_name, dimension_key, and mapping are required"
ErrTypesMappingRequired == "field types_mapping are required"
ErrInvalidValueType == "invalid value type"
ErrAggregateFieldsRequired == "fields metric_name, dimensions, and aggregation_method are required"
ErrInvalidAggregationMethod == "invalid aggregation_method"
ErrCalculateFieldsRequired == "fields metric_name, operand1_metric, operand2_metric, and operator are required"
ErrInvalidOperator == "invalid operator"
ErrUnknownAction == "unknown action value"

\* mutant: the uniqueness of rename_dimension_keys is not checked
validateRenameDimensionKeys_NoUniqueness(tr, renameDimentionKeysFound) ==
    IF tr.Mapping = Nil THEN ErrMappingRequired ELSE "nil"

\* case ActionRenameDimensionKeys
validateRenameDimensionKeys(tr, renameDimentionKeysFound) ==
    IF tr.Mapping = Nil THEN ErrMappingRequired
    ELSE IF renameDimentionKeysFound THEN ErrOnlyOneRenameDimensionKeys
    ELSE "nil"

\* mutant: the scale factors of divide_int are not checked for zero
validateDivideInt_NoZeroCheck(tr) ==
    IF tr.ScaleFactorsInt = Nil THEN ErrScaleFactorsIntRequired ELSE "nil"

\* case ActionDivideInt
validateDivideInt(tr) ==
    IF tr.ScaleFactorsInt = Nil THEN ErrScaleFactorsIntRequired
    ELSE IF \E k \in DOMAIN Deref(tr.ScaleFactorsInt) : MapGet(tr.ScaleFactorsInt, k) = 0
         THEN ErrZeroScaleFactor
         ELSE "nil"

\* mutant: the aggregation method is only required to be set
validateAggregateMetric_AnyMethod(tr) ==
    IF tr.MetricName = "" \/ tr.AggregationMethod = "" \/ Len(tr.Dimensions) = 0
    THEN ErrAggregateFieldsRequired ELSE "nil"

\* case ActionAggregateMetric
validateAggregateMetric(tr) ==
    IF tr.MetricName = "" \/ tr.AggregationMethod = "" \/ Len(tr.Dimensions) = 0
    THEN ErrAggregateFieldsRequired
    ELSE IF tr.AggregationMethod # "count" /\ tr.AggregationMethod # "sum"
         THEN ErrInvalidAggregationMethod
         ELSE "nil"

\* one iteration of the switch for a rule that is not rename_dimension_keys:
\* the error it returns, or "nil" when the loop goes on
validateRule(tr) ==
    CASE tr.Action = ActionRenameMetrics ->
            IF tr.Mapping = Nil THEN ErrMappingRequired ELSE "nil"
      [] tr.Action = ActionMultiplyInt ->
            IF tr.ScaleFactorsInt = Nil THEN ErrScaleFactorsIntRequired ELSE "nil"
      [] tr.Action = ActionDivideInt -> validateDivideInt(tr)
      [] tr.Action = ActionMultiplyFloat ->
            IF tr.ScaleFactorsFloat = Nil THEN ErrScaleFactorsFloatRequired ELSE "nil"
      [] tr.Action = ActionCopyMetrics ->
            IF tr.Mapping = Nil THEN ErrMappingRequired
            ELSE IF tr.DimensionKey # "" /\ MapLen(tr.DimensionValues) = 0
                 THEN ErrDimensionValuesRequired
                 ELSE "nil"
      [] tr.Action = ActionSplitMetric ->
            IF tr.MetricName = "" \/ tr.DimensionKey = "" \/ tr.Mapping = Nil
            THEN ErrSplitFieldsRequired ELSE "nil"
      [] tr.Action = ActionConvertValues ->
            IF tr.TypesMapping = Nil THEN ErrTypesMappingRequired
            ELSE IF \E k \in DOMAIN Deref(tr.TypesMapping) :
                        /\ MapGet(tr.TypesMapping, k) # MetricValueTypeInt
                        /\ MapGet(tr.TypesMapping, k) # MetricValueTypeDouble
                 THEN ErrInvalidValueType
                 ELSE "nil"
      [] tr.Action = ActionAggregateMetric -> validateAggregateMetric(tr)
      [] tr.Action = ActionCalculateNewMetric ->
            IF tr.MetricName = "" \/ tr.Operand1Metric = ""
               \/ tr.Operand2Metric = "" \/ tr.Operator = ""
            THEN ErrCalculateFieldsRequired
            ELSE IF tr.Operator # MetricOperatorDivision
                 THEN ErrInvalidOperator
                 ELSE "nil"
      [] OTHER -> ErrUnknownAction

RECURSIVE validateFrom(_, _, _)
validateFrom(rs, k, renameDimentionKeysFound) ==
    IF k > Len(rs) THEN "nil"
    ELSE IF rs[k].Action = ActionRenameDimensionKeys
         THEN IF validateRenameDimensionKeys(rs[k], renameDimentionKeysFound) # "nil"
              THEN validateRenameDimensionKeys(rs[k], renameDimentionKeysFound)
              ELSE validateFrom(rs, k + 1, TRUE)
         ELSE IF validateRule(rs[k]) # "nil" THEN validateRule(rs[k])
              ELSE validateFrom(rs, k + 1, renameDimentionKeysFound)

validateTranslationRules(rs) == validateFrom(rs, 1, FALSE)

RECURSIVE createDimensionsMapFrom(_, _)
createDimensionsMapFrom(rs, k) ==
    IF k > Len(rs) THEN Nil
    ELSE IF rs[k].Action = ActionRenameDimensionKeys THEN rs[k].Mapping
         ELSE createDimensionsMapFrom(rs, k + 1)

createDimensionsMap(rs) == createDimensionsMapFrom(rs, 1)

\* MetricTranslator.TranslateDimension
TranslateDimension(m, orig) ==
    IF MapHas(m.dimensionsMap, orig) THEN MapGet(m.dimensionsMap, orig) ELSE orig

---------------------------------------------------------------------------
(* sfxpb.DataPoint, sfxpb.Datum, sfxpb.Dimension *)

Datum(iv, dv) == [IntValue |-> iv, DoubleValue |-> dv]

Dimension(k, v) == [Key |-> k, Value |-> v]

DataPoint(metric, ts, mtype, dims, val) ==
    [Metric |-> metric, Timestamp |-> ts, MetricType |-> mtype,
     Dimensions |-> dims, Value |-> val]

MetricType_GAUGE == "GAUGE"

\* the dereferenced points of a slice of addresses
Points(h, dps) == [k \in DOMAIN dps |-> h[dps[k]]]

---------------------------------------------------------------------------
(* The in-place cases of the switch in TranslateDataPoints: what one        *)
(* iteration of the inner range loop does to the point dp.                  *)

\* mutant: the renamed dimension is added and the old one is kept
renameDimensionKeysPoint_KeepOld(tr, dp) ==
    LET renamed == SelectSeq(dp.Dimensions, LAMBDA d : MapHas(tr.Mapping, d.Key))
    IN [dp EXCEPT !.Dimensions =
            dp.Dimensions \o [k \in DOMAIN renamed |->
                                [renamed[k] EXCEPT !.Key = MapGet(tr.Mapping, renamed[k].Key)]]]

\* mutant: only the first dimension with a mapped key is renamed
renameDimensionKeysPoint_FirstOnly(tr, dp) ==
    [dp EXCEPT !.Dimensions =
        [k \in DOMAIN dp.Dimensions |->
            IF /\ MapHas(tr.Mapping, dp.Dimensions[k].Key)
               /\ \A j \in 1..(k - 1) : ~MapHas(tr.Mapping, dp.Dimensions[j].Key)
            THEN [dp.Dimensions[k] EXCEPT !.Key = MapGet(tr.Mapping, dp.Dimensions[k].Key)]
            ELSE dp.Dimensions[k]]]

renameDimensionKeysPoint(tr, dp) ==
    [dp EXCEPT !.Dimensions =
        [k \in DOMAIN dp.Dimensions |->
            IF MapHas(tr.Mapping, dp.Dimensions[k].Key)
            THEN [dp.Dimensions[k] EXCEPT !.Key = MapGet(tr.Mapping, dp.Dimensions[k].Key)]
            ELSE dp.Dimensions[k]]]

renameMetricsPoint(tr, dp) ==
    IF MapHas(tr.Mapping, dp.Metric)
    THEN [dp EXCEPT !.Metric = MapGet(tr.Mapping, dp.Metric)]
    ELSE dp

multiplyIntPoint(tr, dp) ==
    IF MapHas(tr.ScaleFactorsInt, dp.Metric) /\ dp.Value.IntValue # Nil
    THEN [dp EXCEPT !.Value.IntValue =
            Ptr(WrapInt64(Deref(dp.Value.IntValue) * MapGet(tr.ScaleFactorsInt, dp.Metric)))]
    ELSE dp

\* mutant: the divide_int case multiplies, as the multiply_int case above it
divideIntPoint_Multiplies(tr, dp) ==
    IF MapHas(tr.ScaleFactorsInt, dp.Metric) /\ dp.Value.IntValue # Nil
    THEN [dp EXCEPT !.Value.IntValue =
            Ptr(WrapInt64(Deref(dp.Value.IntValue) * MapGet(tr.ScaleFactorsInt, dp.Metric)))]
    ELSE dp

\* the divisor is non-zero here; a zero divisor is the run-time panic of
\* divideIntPanics below
divideIntPoint(tr, dp) ==
    IF MapHas(tr.ScaleFactorsInt, dp.Metric) /\ dp.Value.IntValue # Nil
    THEN [dp EXCEPT !.Value.IntValue =
            Ptr(WrapInt64(TruncDiv(Deref(dp.Value.IntValue),
                                   MapGet(tr.ScaleFactorsInt, dp.Metric))))]
    ELSE dp

\* *v / divisor with divisor = 0 is an integer-divide-by-zero panic
divideIntPanics(tr, dp) ==
    /\ MapHas(tr.ScaleFactorsInt, dp.Metric)
    /\ dp.Value.IntValue # Nil
    /\ MapGet(tr.ScaleFactorsInt, dp.Metric) = 0

multiplyFloatPoint(tr, dp) ==
    IF MapHas(tr.ScaleFactorsFloat, dp.Metric) /\ dp.Value.DoubleValue # Nil
    THEN [dp EXCEPT !.Value.DoubleValue =
            Ptr(FloatMul(Deref(dp.Value.DoubleValue), MapGet(tr.ScaleFactorsFloat, dp.Metric)))]
    ELSE dp

\* mutant: a dimension with the key and an unmapped value is kept and the
\* loop goes on instead of returning
RECURSIVE splitMetricFrom_SkipUnmapped(_, _, _, _, _, _)
splitMetricFrom_SkipUnmapped(dp, dimensionKey, mapping, k, dimensions, match) ==
    IF k > Len(dp.Dimensions) THEN [dp EXCEPT !.Dimensions = dimensions]
    ELSE LET d == dp.Dimensions[k] IN
         IF dimensionKey = d.Key /\ MapHas(mapping, d.Value)
         THEN splitMetricFrom_SkipUnmapped([dp EXCEPT !.Metric = MapGet(mapping, d.Value)],
                                           dimensionKey, mapping, k + 1, dimensions, TRUE)
         ELSE IF k = Len(dp.Dimensions) /\ ~match
              THEN dp
              ELSE splitMetricFrom_SkipUnmapped(dp, dimensionKey, mapping, k + 1,
                                                Append(dimensions, d), match)

\* splitMetric: the loop over dp.Dimensions from index k on, with the local
\* slice dimensions, the flag match and the (already assigned) dp.Metric
RECURSIVE splitMetricFrom(_, _, _, _, _, _)
splitMetricFrom(dp, dimensionKey, mapping, k, dimensions, match) ==
    IF k > Len(dp.Dimensions) THEN [dp EXCEPT !.Dimensions = dimensions]
    ELSE LET d == dp.Dimensions[k] IN
         IF dimensionKey = d.Key
         THEN IF MapHas(mapping, d.Value)
              THEN splitMetricFrom([dp EXCEPT !.Metric = MapGet(mapping, d.Value)],
                                   dimensionKey, mapping, k + 1, dimensions, TRUE)
              ELSE dp
         ELSE IF k = Len(dp.Dimensions) /\ ~match
              THEN dp
              ELSE splitMetricFrom(dp, dimensionKey, mapping, k + 1,
                                   Append(dimensions, d), match)

splitMetric(dp, dimensionKey, mapping) ==
    IF Len(dp.Dimensions) = 0 THEN dp
    ELSE splitMetricFrom(dp, dimensionKey, mapping, 1, <<>>, FALSE)

splitMetricPoint(tr, dp) ==
    IF tr.MetricName = dp.Metric THEN splitMetric(dp, tr.DimensionKey, tr.Mapping) ELSE dp

\* mutant: the float is rounded down instead of truncated toward zero
convertMetricValue_Floor(dp, newType) ==
    CASE newType = MetricValueTypeInt ->
            IF dp.Value.DoubleValue = Nil THEN dp
            ELSE LET x == Deref(dp.Value.DoubleValue)
                 IN [dp EXCEPT !.Value =
                        Datum(Ptr(IF x[1] < 0 /\ x[2] # 1
                                  THEN IntOfFloat(x) - 1 ELSE IntOfFloat(x)), Nil)]
      [] newType = MetricValueTypeDouble ->
            IF dp.Value.IntValue = Nil THEN dp
            ELSE [dp EXCEPT !.Value = Datum(Nil, Ptr(FloatOfInt(Deref(dp.Value.IntValue))))]
      [] OTHER -> dp

convertMetricValue(dp, newType) ==
    CASE newType = MetricValueTypeInt ->
            IF dp.Value.DoubleValue = Nil THEN dp
            ELSE [dp EXCEPT !.Value = Datum(Ptr(IntOfFloat(Deref(dp.Value.DoubleValue))), Nil)]
      [] newType = MetricValueTypeDouble ->
            IF dp.Value.IntValue = Nil THEN dp
            ELSE [dp EXCEPT !.Value = Datum(Nil, Ptr(FloatOfInt(Deref(dp.Value.IntValue))))]
      [] OTHER -> dp

convertValuesPoint(tr, dp) ==
    IF MapHas(tr.TypesMapping, dp.Metric)
    THEN convertMetricValue(dp, MapGet(tr.TypesMapping, dp.Metric))
    ELSE dp

inPlacePoint(tr, dp) ==
    CASE tr.Action = ActionRenameDimensionKeys -> renameDimensionKeysPoint(tr, dp)
      [] tr.Action = ActionRenameMetrics -> renameMetricsPoint(tr, dp)
      [] tr.Action = ActionMultiplyInt -> multiplyIntPoint(tr, dp)
      [] tr.Action = ActionDivideInt -> divideIntPoint(tr, dp)
      [] tr.Action = ActionMultiplyFloat -> multiplyFloatPoint(tr, dp)
      [] tr.Action = ActionSplitMetric -> splitMetricPoint(tr, dp)
      [] tr.Action = ActionConvertValues -> convertValuesPoint(tr, dp)
      [] OTHER -> dp

\* for _, dp := range processedDataPoints { ... }: the points are visited in
\* slice order and changed through their addresses
RECURSIVE rangeInPlace(_, _, _, _)
rangeInPlace(tr, h, dps, k) ==
    IF k > Len(dps) THEN h
    ELSE rangeInPlace(tr, [h EXCEPT ![dps[k]] = inPlacePoint(tr, h[dps[k]])], dps, k + 1)

---------------------------------------------------------------------------
(* The allocating cases: copy_metrics, calculate_new_metric and             *)
(* aggregate_metric.  proto.Clone allocates a fresh object: a new address   *)
(* at the end of the heap.                                                  *)

\* append(dps, the addresses of pts), pts being freshly allocated
Alloc(h, dps, pts) ==
    [heap |-> h \o pts,
     dps |-> dps \o [k \in DOMAIN pts |-> Len(h) + k]]

\* the first dimension of dp with this key (0 when there is none): the loop
\* of copyMetric with its break
RECURSIVE firstDimension(_, _, _)
firstDimension(dims, key, k) ==
    IF k > Len(dims) THEN 0
    ELSE IF dims[k].Key = key THEN k ELSE firstDimension(dims, key, k + 1)

\* mutant: any dimension with the filter key may match, not only the first
copyMetric_AnyOccurrence(tr, dp, newMetricName) ==
    LET match == \E k \in DOMAIN dp.Dimensions :
                    /\ dp.Dimensions[k].Key = tr.DimensionKey
                    /\ MapHas(tr.DimensionValues, dp.Dimensions[k].Value)
                    /\ MapGet(tr.DimensionValues, dp.Dimensions[k].Value)
    IN IF tr.DimensionKey # "" /\ ~match THEN Nil
       ELSE Ptr([dp EXCEPT !.Metric = newMetricName])

\* copyMetric: Nil, or a pointer to the clone
copyMetric(tr, dp, newMetricName) ==
    LET k == firstDimension(dp.Dimensions, tr.DimensionKey, 1)
        match == /\ k # 0
                 /\ MapHas(tr.DimensionValues, dp.Dimensions[k].Value)
                 /\ MapGet(tr.DimensionValues, dp.Dimensions[k].Value)
    IN IF tr.DimensionKey # "" /\ ~match THEN Nil
       ELSE Ptr([dp EXCEPT !.Metric = newMetricName])

\* mutant: no clone is made, the point itself is renamed and appended again
RECURSIVE copyMetricsFrom_Alias(_, _, _, _, _)
copyMetricsFrom_Alias(tr, h, dps, k, acc) ==
    IF k > Len(dps) THEN [heap |-> h, dps |-> acc]
    ELSE LET dp == h[dps[k]] IN
         IF MapHas(tr.Mapping, dp.Metric)
            /\ copyMetric(tr, dp, MapGet(tr.Mapping, dp.Metric)) # Nil
         THEN copyMetricsFrom_Alias(tr,
                    [h EXCEPT ![dps[k]] =
                        Deref(copyMetric(tr, dp, MapGet(tr.Mapping, dp.Metric)))],
                    dps, k + 1, Append(acc, dps[k]))
         ELSE copyMetricsFrom_Alias(tr, h, dps, k + 1, acc)

\* the range loop of the copy_metrics case over the slice as it was when the
\* loop began; acc is the working slice being appended to
RECURSIVE copyMetricsFrom(_, _, _, _, _)
copyMetricsFrom(tr, h, dps, k, acc) ==
    IF k > Len(dps) THEN [heap |-> h, dps |-> acc]
    ELSE LET dp == h[dps[k]] IN
         IF MapHas(tr.Mapping, dp.Metric)
            /\ copyMetric(tr, dp, MapGet(tr.Mapping, dp.Metric)) # Nil
         THEN LET a == Alloc(h, acc,
                        <<Deref(copyMetric(tr, dp, MapGet(tr.Mapping, dp.Metric)))>>)
              IN copyMetricsFrom(tr, a.heap, dps, k + 1, a.dps)
         ELSE copyMetricsFrom(tr, h, dps, k + 1, acc)

\* mutant: the scan keeps the first point found for each operand
RECURSIVE findOperand_First(_, _, _, _, _, _)
findOperand_First(tr, h, dps, which, k, found) ==
    IF k > Len(dps) THEN found
    ELSE LET dp == h[dps[k]]
             hit == \/ which = 1 /\ dp.Metric = tr.Operand1Metric
                    \/ which = 2 /\ dp.Metric # tr.Operand1Metric
                                 /\ dp.Metric = tr.Operand2Metric
         IN findOperand_First(tr, h, dps, which, k + 1,
                              IF hit /\ found = 0 THEN dps[k] ELSE found)

\* the scan of the calculate_new_metric case: the address left in operand1
\* (which = 1) or operand2 (which = 2) after the loop, 0 for nil
RECURSIVE findOperand(_, _, _, _, _, _)
findOperand(tr, h, dps, which, k, found) ==
    IF k > Len(dps) THEN found
    ELSE LET dp == h[dps[k]] IN
         IF dp.Metric = tr.Operand1Metric
         THEN findOperand(tr, h, dps, which, k + 1, IF which = 1 THEN dps[k] ELSE found)
         ELSE IF dp.Metric = tr.Operand2Metric
              THEN findOperand(tr, h, dps, which, k + 1, IF which = 2 THEN dps[k] ELSE found)
              ELSE findOperand(tr, h, dps, which, k + 1, found)

\* mutant: a zero operand2 is not skipped
calculateNewMetric_NoZeroCheck(operand1, operand2, tr) ==
    IF operand1 = Nil THEN Nil
    ELSE IF Deref(operand1).Value.IntValue = Nil THEN Nil
    ELSE IF operand2 = Nil THEN Nil
    ELSE IF Deref(operand2).Value.IntValue = Nil THEN Nil
    ELSE IF tr.Operator # MetricOperatorDivision THEN Nil
    ELSE Ptr([Deref(operand1) EXCEPT
                !.Metric = tr.MetricName,
                !.Value = Datum(Nil,
                    Ptr(FloatDiv(FloatOfInt(Deref(Deref(operand1).Value.IntValue)),
                                 FloatOfInt(Deref(Deref(operand2).Value.IntValue)))))])

\* calculateNewMetric: Nil, or a pointer to the new point; operand1 and
\* operand2 are Nil or pointers to the operand points
calculateNewMetric(operand1, operand2, tr) ==
    IF operand1 = Nil THEN Nil
    ELSE IF Deref(operand1).Value.IntValue = Nil THEN Nil
    ELSE IF operand2 = Nil THEN Nil
    ELSE IF Deref(operand2).Value.IntValue = Nil THEN Nil
    ELSE IF tr.Operator = MetricOperatorDivision
            /\ Deref(Deref(operand2).Value.IntValue) = 0 THEN Nil
    ELSE IF tr.Operator # MetricOperatorDivision THEN Nil
    ELSE Ptr([Deref(operand1) EXCEPT
                !.Metric = tr.MetricName,
                !.Value = Datum(Nil,
                    Ptr(FloatDiv(FloatOfInt(Deref(Deref(operand1).Value.IntValue)),
                                 FloatOfInt(Deref(Deref(operand2).Value.IntValue)))))])

\* getAggregationKey: Nil for the error, or a pointer to the key
RECURSIVE dimensionValuesFor(_, _, _)
dimensionValuesFor(dimensions, dk, k) ==
    IF k > Len(dimensions) THEN ""
    ELSE (IF dimensions[k].Key = dk THEN dimensions[k].Value \o "//" ELSE "")
         \o dimensionValuesFor(dimensions, dk, k + 1)

\* mutant: a missing dimension is not an error, it adds nothing to the key
getAggregationKey_NoError(dimensions, dimensionsKeys) ==
    Ptr(dimensionValuesFor(dimensions, dimensionsKeys[1], 1)
        \o (IF Len(dimensionsKeys) > 1
            THEN dimensionValuesFor(dimensions, dimensionsKeys[2], 1) ELSE ""))

RECURSIVE getAggregationKeyFrom(_, _, _, _)
getAggregationKeyFrom(dimensions, dimensionsKeys, j, aggregationKey) ==
    IF j > Len(dimensionsKeys) THEN Ptr(aggregationKey)
    ELSE IF \A k \in DOMAIN dimensions : dimensions[k].Key # dimensionsKeys[j]
         THEN Nil
         ELSE getAggregationKeyFrom(dimensions, dimensionsKeys, j + 1,
                aggregationKey \o dimensionValuesFor(dimensions, dimensionsKeys[j], 1))

getAggregationKey(dimensions, dimensionsKeys) ==
    getAggregationKeyFrom(dimensions, dimensionsKeys, 1, "")

\* filterDimensions
RECURSIVE filterDimensionsFrom(_, _, _)
filterDimensionsFrom(dimensions, dimensionsKeys, j) ==
    IF j > Len(dimensionsKeys) THEN <<>>
    ELSE SelectSeq(dimensions, LAMBDA d : d.Key = dimensionsKeys[j])
         \o filterDimensionsFrom(dimensions, dimensionsKeys, j + 1)

filterDimensions(dimensions, dimensionsKeys) ==
    IF Len(dimensions) = 0 \/ Len(dimensionsKeys) = 0 THEN <<>>
    ELSE filterDimensionsFrom(dimensions, dimensionsKeys, 1)

\* mutant: integer and floating-point contributions are merged into the
\* floating-point field
RECURSIVE sumGroup_Merged(_, _, _, _, _)
sumGroup_Merged(group, k, intValue, floatValue, value) ==
    IF k > Len(group) THEN value
    ELSE LET v == group[k].Value
             fv == IF v.DoubleValue # Nil THEN FloatAdd(floatValue, Deref(v.DoubleValue))
                   ELSE IF v.IntValue # Nil
                        THEN FloatAdd(floatValue, FloatOfInt(Deref(v.IntValue)))
                        ELSE floatValue
         IN sumGroup_Merged(group, k + 1, intValue, fv,
                Datum(Nil, IF v.DoubleValue # Nil \/ v.IntValue # Nil
                           THEN Ptr(fv) ELSE value.DoubleValue))

\* the sum loop over one group: the Datum left in value
RECURSIVE sumGroup(_, _, _, _, _)
sumGroup(group, k, intValue, floatValue, value) ==
    IF k > Len(group) THEN value
    ELSE LET v == group[k].Value
             iv == IF v.IntValue # Nil THEN WrapInt64(intValue + Deref(v.IntValue))
                   ELSE intValue
             fv == IF v.DoubleValue # Nil THEN FloatAdd(floatValue, Deref(v.DoubleValue))
                   ELSE floatValue
         IN sumGroup(group, k + 1, iv, fv,
                Datum(IF v.IntValue # Nil THEN Ptr(iv) ELSE value.IntValue,
                      IF v.DoubleValue # Nil THEN Ptr(fv) ELSE value.DoubleValue))

\* mutant: the count is one less than the size of the group
aggregateGroup_CountOffByOne(group, dimensionsKeys, aggregation) ==
    LET dp == [group[1] EXCEPT
                 !.Dimensions = filterDimensions(group[1].Dimensions, dimensionsKeys)]
    IN CASE aggregation = AggregationMethodCount ->
              [dp EXCEPT !.MetricType = MetricType_GAUGE,
                         !.Value = Datum(Ptr(WrapInt64(Len(group) - 1)), Nil)]
         [] aggregation = AggregationMethodSum ->
              [dp EXCEPT !.Value = sumGroup(group, 1, 0, <<0, 1>>, Datum(Nil, Nil))]
         [] OTHER -> dp

\* mutant: a sum always carries both fields (zero for the kind without members)
aggregateGroup_BothFields(group, dimensionsKeys, aggregation) ==
    LET dp == [group[1] EXCEPT
                 !.Dimensions = filterDimensions(group[1].Dimensions, dimensionsKeys)]
        v == sumGroup(group, 1, 0, <<0, 1>>, Datum(Nil, Nil))
    IN CASE aggregation = AggregationMethodCount ->
              [dp EXCEPT !.MetricType = MetricType_GAUGE,
                         !.Value = Datum(Ptr(WrapInt64(Len(group))), Nil)]
         [] aggregation = AggregationMethodSum ->
              [dp EXCEPT !.Value =
                  Datum(IF v.IntValue = Nil THEN Ptr(0) ELSE v.IntValue,
                        IF v.DoubleValue = Nil THEN Ptr(<<0, 1>>) ELSE v.DoubleValue)]
         [] OTHER -> dp

\* the aggregated point of one group (the body of the second loop of
\* aggregateDatapoints); group is the non-empty sequence of its members
aggregateGroup(group, dimensionsKeys, aggregation) ==
    LET dp == [group[1] EXCEPT
                 !.Dimensions = filterDimensions(group[1].Dimensions, dimensionsKeys)]
    IN CASE aggregation = AggregationMethodCount ->
              [dp EXCEPT !.MetricType = MetricType_GAUGE,
                         !.Value = Datum(Ptr(WrapInt64(Len(group))), Nil)]
         [] aggregation = AggregationMethodSum ->
              [dp EXCEPT !.Value = sumGroup(group, 1, 0, <<0, 1>>, Datum(Nil, Nil))]
         [] OTHER -> dp

\* the orders in which a range over a Go map may visit the keys in S
MapOrders(S) ==
    {o \in [1..Cardinality(S) -> S] : \A a, b \in DOMAIN o : a # b => o[a] # o[b]}

\* aggregateDatapoints: the set of results it can return (the second loop
\* ranges over the map dimValuesToDps, whose iteration order is not fixed);
\* pts are the dereferenced points to aggregate
aggregateDatapoints(pts, dimensionsKeys, aggregation) ==
    IF Len(pts) = 0 THEN {<<>>}
    ELSE LET kept == SelectSeq(pts,
                        LAMBDA dp : getAggregationKey(dp.Dimensions, dimensionsKeys) # Nil)
             keyOf(dp) == Deref(getAggregationKey(dp.Dimensions, dimensionsKeys))
             dimValuesToDps ==
                [key \in {keyOf(kept[k]) : k \in DOMAIN kept} |->
                    SelectSeq(kept, LAMBDA dp : keyOf(dp) = key)]
         IN {[n \in DOMAIN o |->
                aggregateGroup(dimValuesToDps[o[n]], dimensionsKeys, aggregation)] :
             o \in MapOrders(DOMAIN dimValuesToDps)}

\* case ActionCalculateNewMetric of TranslateDataPoints
calculateNewMetricCase(t, h, dps) ==
    LET o1 == findOperand(t, h, dps, 1, 1, 0)
        o2 == findOperand(t, h, dps, 2, 1, 0)
        newPt == calculateNewMetric(IF o1 = 0 THEN Nil ELSE Ptr(h[o1]),
                                    IF o2 = 0 THEN Nil ELSE Ptr(h[o2]), t)
    IN IF newPt = Nil THEN [heap |-> h, dps |-> dps]
       ELSE Alloc(h, dps, <<Deref(newPt)>>)

\* case ActionAggregateMetric of TranslateDataPoints: the results it can leave
aggregateMetricCase(t, h, dps) ==
    LET dpsToAggregate == SelectSeq(dps, LAMBDA p : h[p].Metric = t.MetricName)
        otherDps == SelectSeq(dps, LAMBDA p : h[p].Metric # t.MetricName)
    IN {Alloc(h, otherDps, aggregatedDps) :
            aggregatedDps \in aggregateDatapoints(Points(h, dpsToAggregate),
                                                  t.Dimensions, t.AggregationMethod)}

\* one iteration of the loop over mp.rules: the results the switch on
\* t.Action can leave, from the working slice dps and the heap h
translateCase(t, h, dps) ==
    CASE t.Action = ActionCopyMetrics -> {copyMetricsFrom(t, h, dps, 1, dps)}
      [] t.Action = ActionCalculateNewMetric -> {calculateNewMetricCase(t, h, dps)}
      [] t.Action = ActionAggregateMetric -> aggregateMetricCase(t, h, dps)
      [] OTHER -> {[heap |-> rangeInPlace(t, h, dps, 1), dps |-> dps]}

---------------------------------------------------------------------------
(* Inputs: rule lists and batches *)

SeqsUpTo(S, n) == UNION {[1..k -> S] : k \in 0..n}

Map1(k, v) == Ptr([x \in {k} |-> v])

Map2(k1, v1, k2, v2) == Ptr([x \in {k1, k2} |-> IF x = k1 THEN v1 ELSE v2])

IntDatum(n) == Datum(Ptr(n), Nil)

FloatDatum(n, d) == Datum(Nil, Ptr(Float(n, d)))

\* one well-formed rule of every action (two of rename_dimension_keys)
RenameDimensionKeysRule == [Rule EXCEPT !.Action = ActionRenameDimensionKeys,
                                        !.Mapping = Map1("k1", "k2")]
RenameDimensionKeysRule2 == [Rule EXCEPT !.Action = ActionRenameDimensionKeys,
                                         !.Mapping = EmptyMap]
RenameMetricsRule == [Rule EXCEPT !.Action = ActionRenameMetrics,
                                  !.Mapping = Map1("a", "b")]
MultiplyIntRule == [Rule EXCEPT !.Action = ActionMultiplyInt,
                                !.ScaleFactorsInt = Map1("b", 3)]
DivideIntRule == [Rule EXCEPT !.Action = ActionDivideInt,
                              !.ScaleFactorsInt = Map2("a", 0 - 1, "b", 2)]
MultiplyFloatRule == [Rule EXCEPT !.Action = ActionMultiplyFloat,
                                  !.ScaleFactorsFloat = Map1("b", Float(10, 1))]
CopyMetricsRule == [Rule EXCEPT !.Action = ActionCopyMetrics,
                                !.Mapping = Map1("a", "c"),
                                !.DimensionKey = "k1",
                                !.DimensionValues = Map2("x", TRUE, "y", FALSE)]
SplitMetricRule == [Rule EXCEPT !.Action = ActionSplitMetric,
                                !.MetricName = "a", !.DimensionKey = "k1",
                                !.Mapping = Map1("x", "c")]
ConvertValuesRule == [Rule EXCEPT !.Action = ActionConvertValues,
                                  !.TypesMapping = Map2("a", MetricValueTypeInt,
                                                        "b", MetricValueTypeDouble)]
AggregateMetricRule == [Rule EXCEPT !.Action = ActionAggregateMetric,
                                    !.MetricName = "a",
                                    !.AggregationMethod = AggregationMethodCount,
                                    !.Dimensions = <<"k1">>]
CalculateNewMetricRule == [Rule EXCEPT !.Action = ActionCalculateNewMetric,
                                       !.MetricName = "c", !.Operand1Metric = "a",
                                       !.Operand2Metric = "b",
                                       !.Operator = MetricOperatorDivision]

WellFormedRules ==
    {RenameDimensionKeysRule, RenameDimensionKeysRule2, RenameMetricsRule,
     MultiplyIntRule, DivideIntRule, MultiplyFloatRule, CopyMetricsRule,
     SplitMetricRule, ConvertValuesRule, AggregateMetricRule, CalculateNewMetricRule}

\* rules that validateTranslationRules rejects, one or more for each error it returns
MalformedRules ==
    {[Rule EXCEPT !.Action = "bogus", !.Mapping = EmptyMap],
     Rule,
     [RenameDimensionKeysRule EXCEPT !.Mapping = Nil],
     [RenameMetricsRule EXCEPT !.Mapping = Nil],
     [MultiplyIntRule EXCEPT !.ScaleFactorsInt = Nil],
     [DivideIntRule EXCEPT !.ScaleFactorsInt = Nil],
     [DivideIntRule EXCEPT !.ScaleFactorsInt = Map2("a", 2, "b", 0)],
     [MultiplyFloatRule EXCEPT !.ScaleFactorsFloat = Nil],
     [CopyMetricsRule EXCEPT !.Mapping = Nil],
     [CopyMetricsRule EXCEPT !.DimensionValues = Nil],
     [SplitMetricRule EXCEPT !.MetricName = ""],
     [SplitMetricRule EXCEPT !.Mapping = Nil],
     [ConvertValuesRule EXCEPT !.TypesMapping = Nil],
     [ConvertValuesRule EXCEPT !.TypesMapping = Map2("a", MetricValueTypeInt, "b", "string")],
     [AggregateMetricRule EXCEPT !.Dimensions = <<>>],
     [AggregateMetricRule EXCEPT !.AggregationMethod = "avg"],
     [CalculateNewMetricRule EXCEPT !.Operand2Metric = ""],
     [CalculateNewMetricRule EXCEPT !.Operator = "*"]}

ValidationBatch ==
    <<DataPoint("a", 1, "", <<Dimension("k1", "x"), Dimension("k2", "y")>>, IntDatum(6)),
      DataPoint("b", 2, "", <<Dimension("k1", "x")>>, IntDatum(5)),
      DataPoint("a", 3, "", <<Dimension("k1", "y")>>, FloatDatum(5, 2)),
      DataPoint("b", 4, "", <<>>, FloatDatum(3, 2)),
      DataPoint("b", 5, "", <<Dimension("k2", "y")>>, IntDatum(MaxInt64)),
      DataPoint("a", 6, "", <<Dimension("k1", "x")>>, IntDatum(MinInt64))>>

\* aggregate_metric scenarios: one rule over every batch of at most MaxPoints
\* of these points
AggregateRules ==
    {[Rule EXCEPT !.Action = ActionAggregateMetric, !.MetricName = "m",
                  !.AggregationMethod = method, !.Dimensions = dims] :
        method \in {AggregationMethodCount, AggregationMethodSum},
        dims \in {<<"k1">>, <<"k1", "k2">>}}

AggregatePoints ==
    {DataPoint("m", 1, "", <<Dimension("k1", "x"), Dimension("k2", "y")>>, IntDatum(5)),
     DataPoint("m", 2, "", <<Dimension("k2", "y"), Dimension("k1", "x"),
                              Dimension("k3", "z")>>, IntDatum(3)),
     DataPoint("m", 3, "", <<Dimension("k1", "x"), Dimension("k2", "y")>>, FloatDatum(5, 2)),
     DataPoint("m", 4, "", <<Dimension("k1", "x")>>, IntDatum(5)),
     DataPoint("m", 5, "", <<Dimension("k1", "y"), Dimension("k2", "y")>>, IntDatum(3)),
     DataPoint("m", 6, "", <<Dimension("k1", "x"), Dimension("k1", "w"),
                              Dimension("k2", "y")>>, IntDatum(5)),
     DataPoint("m", 7, "", <<Dimension("k1", "x"), Dimension("k2", "y")>>, IntDatum(MaxInt64)),
     DataPoint("m", 8, "", <<>>, FloatDatum(3, 2)),
     DataPoint("o", 9, "", <<Dimension("k1", "x"), Dimension("k2", "y")>>, IntDatum(5))}

\* calculate_new_metric scenarios
CalculateRule(op1, op2) ==
    [Rule EXCEPT !.Action = ActionCalculateNewMetric, !.MetricName = "r",
                 !.Operand1Metric = op1, !.Operand2Metric = op2,
                 !.Operator = MetricOperatorDivision]

FollowingRule == [Rule EXCEPT !.Action = ActionMultiplyInt,
                              !.ScaleFactorsInt = Map1("u", 2)]

CalculateRuleLists ==
    {<<CalculateRule("u", "t")>>,
     <<CalculateRule("u", "t"), FollowingRule>>,
     <<CalculateRule("u", "u")>>}

CalculatePoints ==
    {DataPoint("u", 1, "", <<Dimension("k1", "x")>>, IntDatum(10)),
     DataPoint("u", 2, "", <<Dimension("k1", "y"), Dimension("k2", "y")>>, IntDatum(7)),
     DataPoint("u", 3, "", <<>>, FloatDatum(5, 2)),
     DataPoint("t", 4, "", <<Dimension("k2", "y")>>, IntDatum(4)),
     DataPoint("t", 5, "", <<>>, IntDatum(0)),
     DataPoint("t", 6, "", <<>>, FloatDatum(3, 2)),
     DataPoint("o", 7, "", <<Dimension("k1", "x")>>, IntDatum(5))}

---------------------------------------------------------------------------
(* The state machine *)

\* the state before NewMetricTranslator, of a program built for arch
InitOn(rs, batch, arch) ==
    /\ goarch = arch
    /\ rules = rs
    /\ mp = Nil
    /\ err = "nil"
    /\ pc = "new"
    /\ heap = batch
    /\ sfxDataPoints = [k \in DOMAIN batch |-> k]
    /\ processedDataPoints = <<>>
    /\ ruleIdx = 0
    /\ prevDataPoints = <<>>
    /\ prevHeap = <<>>
    /\ heap0 = <<>>
    /\ calls = 0
    /\ translated = Nil
    /\ goroutine = <<>>
    /\ backing = <<>>
    /\ exporter = <<>>

InitWith(rs, batch) == InitOn(rs, batch, "amd64")

\* validation scenarios: every list of at most MaxRules well-formed rules, and
\* every such list with one rule, at any position, replaced by a malformed
\* one; aggregate_metric and calculate_new_metric scenarios: their rule lists
\* with every batch of at most MaxPoints of their points
Init ==
    \/ \E rs \in SeqsUpTo(WellFormedRules, MaxRules) :
            \/ InitWith(rs, ValidationBatch)
            \/ \E k \in DOMAIN rs, m \in MalformedRules :
                    InitWith([rs EXCEPT ![k] = m], ValidationBatch)
    \/ \E tr \in AggregateRules, batch \in SeqsUpTo(AggregatePoints, MaxPoints) :
            InitWith(<<tr>>, batch)
    \/ \E rs \in CalculateRuleLists, batch \in SeqsUpTo(CalculatePoints, MaxPoints) :
            InitWith(rs, batch)

NewMetricTranslator ==
    /\ pc = "new"
    /\ IF validateTranslationRules(rules) # "nil"
       THEN /\ mp' = Nil
            /\ err' = validateTranslationRules(rules)
            /\ pc' = "failed"
       ELSE /\ mp' = Ptr([rules |-> rules, dimensionsMap |-> createDimensionsMap(rules)])
            /\ err' = "nil"
            /\ pc' = "ready"
    /\ UNCHANGED <<rules, heap, sfxDataPoints, processedDataPoints, ruleIdx,
                   prevDataPoints, prevHeap, heap0, calls, translated, goarch, goroutine, backing, exporter>>

\* entry of TranslateDataPoints: processedDataPoints := sfxDataPoints
TranslateDataPoints ==
    /\ pc = "ready"
    /\ pc' = "loop"
    /\ processedDataPoints' = sfxDataPoints
    /\ ruleIdx' = 1
    /\ heap0' = heap
    /\ calls' = calls + 1
    /\ translated' = Nil
    /\ UNCHANGED <<rules, mp, err, heap, sfxDataPoints, prevDataPoints, prevHeap, goarch, goroutine, backing, exporter>>

\* mutant: the rules are visited from the last to the first
tr_Reversed == Deref(mp).rules[Len(Deref(mp).rules) + 1 - ruleIdx]

\* the rule of the current iteration of for _, tr := range mp.rules
tr == Deref(mp).rules[ruleIdx]

\* the loop is at a rule whose action is `action`
AtRule(action) ==
    /\ pc = "loop"
    /\ ruleIdx <= Len(Deref(mp).rules)
    /\ tr.Action = action

\* the end of one iteration: the working slice and the heap it leaves
Iterate(h, dps) ==
    /\ heap' = h
    /\ processedDataPoints' = dps
    /\ ruleIdx' = ruleIdx + 1
    /\ prevDataPoints' = processedDataPoints
    /\ prevHeap' = heap
    /\ UNCHANGED <<rules, mp, err, pc, sfxDataPoints, heap0, calls, translated, goarch, goroutine, backing, exporter>>

CaseRenameDimensionKeys ==
    /\ AtRule(ActionRenameDimensionKeys)
    /\ Iterate(rangeInPlace(tr, heap, processedDataPoints, 1), processedDataPoints)

CaseRenameMetrics ==
    /\ AtRule(ActionRenameMetrics)
    /\ Iterate(rangeInPlace(tr, heap, processedDataPoints, 1), processedDataPoints)

CaseMultiplyInt ==
    /\ AtRule(ActionMultiplyInt)
    /\ Iterate(rangeInPlace(tr, heap, processedDataPoints, 1), processedDataPoints)

CaseDivideInt ==
    /\ AtRule(ActionDivideInt)
    /\ IF \E k \in DOMAIN processedDataPoints :
             divideIntPanics(tr, heap[processedDataPoints[k]])
       THEN /\ pc' = "panic"
            /\ UNCHANGED <<rules, mp, err, heap, sfxDataPoints, processedDataPoints,
                           ruleIdx, prevDataPoints, prevHeap, heap0, calls, translated, goarch, goroutine, backing, exporter>>
       ELSE Iterate(rangeInPlace(tr, heap, processedDataPoints, 1), processedDataPoints)

CaseMultiplyFloat ==
    /\ AtRule(ActionMultiplyFloat)
    /\ Iterate(rangeInPlace(tr, heap, processedDataPoints, 1), processedDataPoints)

CaseCopyMetrics ==
    /\ AtRule(ActionCopyMetrics)
    /\ LET r == copyMetricsFrom(tr, heap, processedDataPoints, 1, processedDataPoints)
       IN Iterate(r.heap, r.dps)

CaseSplitMetric ==
    /\ AtRule(ActionSplitMetric)
    /\ Iterate(rangeInPlace(tr, heap, processedDataPoints, 1), processedDataPoints)

CaseConvertValues ==
    /\ AtRule(ActionConvertValues)
    /\ Iterate(rangeInPlace(tr, heap, processedDataPoints, 1), processedDataPoints)

\* mutant: a skipped calculation (missing operand, no value, type mismatch,
\* zero divisor) aborts the batch instead of going on to the next rule
CaseCalculateNewMetric_Abort ==
    /\ AtRule(ActionCalculateNewMetric)
    /\ LET r == calculateNewMetricCase(tr, heap, processedDataPoints)
       IN IF r.dps = processedDataPoints
          THEN /\ pc' = "panic"
               /\ UNCHANGED <<rules, mp, err, heap, sfxDataPoints, processedDataPoints,
                              ruleIdx, prevDataPoints, prevHeap, heap0, calls,
                              translated, goarch, goroutine, backing, exporter>>
          ELSE Iterate(r.heap, r.dps)

CaseCalculateNewMetric ==
    /\ AtRule(ActionCalculateNewMetric)
    /\ LET r == calculateNewMetricCase(tr, heap, processedDataPoints)
       IN Iterate(r.heap, r.dps)

CaseAggregateMetric ==
    /\ AtRule(ActionAggregateMetric)
    /\ \E r \in aggregateMetricCase(tr, heap, processedDataPoints) :
            Iterate(r.heap, r.dps)

\* return processedDataPoints
Return ==
    /\ pc = "loop"
    /\ ruleIdx > Len(Deref(mp).rules)
    /\ pc' = "done"
    /\ UNCHANGED <<rules, mp, err, heap, sfxDataPoints, processedDataPoints, ruleIdx,
                   prevDataPoints, prevHeap, heap0, calls, translated, goarch, goroutine, backing, exporter>>

Next ==
    \/ NewMetricTranslator
    \/ TranslateDataPoints
    \/ CaseRenameDimensionKeys
    \/ CaseRenameMetrics
    \/ CaseMultiplyInt
    \/ CaseDivideInt
    \/ CaseMultiplyFloat
    \/ CaseCopyMetrics
    \/ CaseSplitMetric
    \/ CaseConvertValues
    \/ CaseCalculateNewMetric
    \/ CaseAggregateMetric
    \/ Return

Spec == Init /\ [][Next]_vars

---------------------------------------------------------------------------
(* Step scenarios: one engine, called up to MaxCalls times, each call on    *)
(* the batch the previous call returned, and asked to translate dimension   *)
(* names between the calls.                                                 *)

MaxCalls == 2

\* copy_metrics rules: no filter; a target that is itself a mapping key
\* (a -> a, and a -> b with b -> c); CopyMetricsRule filters on k1
CopyAllRule == [Rule EXCEPT !.Action = ActionCopyMetrics, !.Mapping = Map1("a", "c")]
CopySelfRule == [Rule EXCEPT !.Action = ActionCopyMetrics, !.Mapping = Map1("a", "a")]
CopyChainRule == [Rule EXCEPT !.Action = ActionCopyMetrics,
                              !.Mapping = Map2("a", "b", "b", "c")]

\* rules that follow a copy a -> c: they match the original's name only, or
\* the copy's name only
AfterCopyRules ==
    {[Rule EXCEPT !.Action = ActionMultiplyInt, !.ScaleFactorsInt = Map1("a", 2)],
     [Rule EXCEPT !.Action = ActionMultiplyInt, !.ScaleFactorsInt = Map1("c", 2)],
     [Rule EXCEPT !.Action = ActionMultiplyFloat,
                  !.ScaleFactorsFloat = Map1("a", Float(3, 1))],
     [Rule EXCEPT !.Action = ActionRenameMetrics, !.Mapping = Map1("a", "z")],
     [Rule EXCEPT !.Action = ActionRenameMetrics, !.Mapping = Map1("c", "z")],
     [Rule EXCEPT !.Action = ActionSplitMetric, !.MetricName = "a",
                  !.DimensionKey = "k1", !.Mapping = Map1("x", "d")],
     [Rule EXCEPT !.Action = ActionSplitMetric, !.MetricName = "c",
                  !.DimensionKey = "k1", !.Mapping = Map1("x", "d")],
     [Rule EXCEPT !.Action = ActionConvertValues,
                  !.TypesMapping = Map1("a", MetricValueTypeDouble)],
     [Rule EXCEPT !.Action = ActionAggregateMetric, !.MetricName = "c",
                  !.AggregationMethod = AggregationMethodSum, !.Dimensions = <<"k1">>],
     [Rule EXCEPT !.Action = ActionCalculateNewMetric, !.MetricName = "r",
                  !.Operand1Metric = "a", !.Operand2Metric = "c",
                  !.Operator = MetricOperatorDivision]}

CopyRuleLists ==
    {<<CopyAllRule>>, <<CopySelfRule>>, <<CopyChainRule>>, <<CopyMetricsRule>>}
    \cup {<<CopyAllRule, r>> : r \in AfterCopyRules}

CopyPoints ==
    {DataPoint("a", 1, "", <<Dimension("k1", "x"), Dimension("k2", "y")>>, IntDatum(5)),
     DataPoint("a", 2, "", <<Dimension("k1", "w"), Dimension("k1", "x")>>, IntDatum(3)),
     DataPoint("a", 3, "", <<Dimension("k1", "y")>>, FloatDatum(5, 2)),
     DataPoint("a", 4, "", <<>>, IntDatum(7)),
     DataPoint("b", 5, "", <<Dimension("k1", "x")>>, IntDatum(4)),
     DataPoint("o", 6, "", <<Dimension("k2", "y")>>, IntDatum(1))}

\* split_metric: the key k1 with two mapped values
SplitRuleLists ==
    {<<[Rule EXCEPT !.Action = ActionSplitMetric, !.MetricName = "a",
                    !.DimensionKey = "k1", !.Mapping = Map2("x", "c", "w", "d")]>>}

SplitPoints ==
    {DataPoint("a", 1, "", <<Dimension("k1", "x"), Dimension("k2", "y")>>, IntDatum(5)),
     DataPoint("a", 2, "", <<Dimension("k2", "y"), Dimension("k1", "w"),
                              Dimension("k3", "z")>>, IntDatum(5)),
     DataPoint("a", 3, "", <<Dimension("k1", "x"), Dimension("k1", "w")>>, IntDatum(5)),
     DataPoint("a", 4, "", <<Dimension("k1", "x"), Dimension("k2", "y"),
                              Dimension("k1", "q")>>, IntDatum(5)),
     DataPoint("a", 5, "", <<Dimension("k1", "q"), Dimension("k1", "x")>>, IntDatum(5)),
     DataPoint("a", 6, "", <<Dimension("k2", "y")>>, IntDatum(5)),
     DataPoint("a", 7, "", <<>>, IntDatum(5)),
     DataPoint("b", 8, "", <<Dimension("k1", "x")>>, IntDatum(5))}

\* rename_dimension_keys: a plain mapping, a chain, a cycle, a key mapped to
\* itself and the empty mapping
RenameRuleLists ==
    {<<RenameDimensionKeysRule>>, <<RenameDimensionKeysRule2>>,
     <<[RenameDimensionKeysRule EXCEPT !.Mapping = Map2("k1", "k2", "k2", "k3")]>>,
     <<[RenameDimensionKeysRule EXCEPT !.Mapping = Map2("k1", "k2", "k2", "k1")]>>,
     <<[RenameDimensionKeysRule EXCEPT !.Mapping = Map2("k1", "k1", "k3", "k2")]>>}

RenamePoints ==
    {DataPoint("m", 1, "", <<Dimension("k1", "x"), Dimension("k2", "y")>>, IntDatum(5)),
     DataPoint("m", 2, "", <<Dimension("k1", "x"), Dimension("k1", "w")>>, IntDatum(5)),
     DataPoint("m", 3, "", <<Dimension("k3", "z")>>, FloatDatum(5, 2)),
     DataPoint("o", 4, "", <<>>, IntDatum(5))}

\* the names an enrichment collaborator asks TranslateDimension about
DimensionNames == {"k1", "k2", "k3"}

\* multiply_int followed by divide_int with the same table
ScaleRuleLists ==
    {<<[Rule EXCEPT !.Action = ActionMultiplyInt, !.ScaleFactorsInt = Map1("m", f)],
       [Rule EXCEPT !.Action = ActionDivideInt, !.ScaleFactorsInt = Map1("m", f)]>> :
        f \in {2, 3, 0 - 1, 0 - 2}}

ScalePoints ==
    {DataPoint("m", 1, "", <<>>, IntDatum(5)),
     DataPoint("m", 2, "", <<>>, IntDatum(0 - 7)),
     DataPoint("m", 3, "", <<>>, IntDatum(MaxInt64)),
     DataPoint("m", 4, "", <<>>, IntDatum(MinInt64)),
     DataPoint("m", 5, "", <<>>, FloatDatum(5, 2)),
     DataPoint("o", 6, "", <<>>, IntDatum(5))}

\* convert_values: a to int, b to double
ConvertRuleLists == {<<ConvertValuesRule>>}

\* among them an integer that is not a float64 (the largest int64) and a
\* float whose integer part is not an int64
ConvertPoints ==
    {DataPoint("a", 1, "", <<>>, FloatDatum(5, 2)),
     DataPoint("a", 2, "", <<>>, FloatDatum(0 - 7, 2)),
     DataPoint("a", 3, "", <<>>, IntDatum(5)),
     DataPoint("a", 4, "", <<>>, FloatDatum(Pow2(IntWidth), 1)),
     DataPoint("b", 5, "", <<>>, IntDatum(0 - 7)),
     DataPoint("b", 6, "", <<>>, IntDatum(MaxInt64)),
     DataPoint("b", 7, "", <<>>, FloatDatum(5, 2)),
     DataPoint("o", 8, "", <<>>, FloatDatum(5, 2))}

\* aggregate_metric by two dimension keys, over points whose values for
\* them are plain, empty, or contain the delimiter of the aggregation key
\* or a part of it
KeyRuleLists ==
    {<<[Rule EXCEPT !.Action = ActionAggregateMetric, !.MetricName = "m",
                    !.AggregationMethod = AggregationMethodCount,
                    !.Dimensions = <<"k1", "k2">>]>>}

KeyPoints ==
    {DataPoint("m", 1, "", <<Dimension("k1", "x"), Dimension("k2", "y")>>, IntDatum(5)),
     DataPoint("m", 2, "", <<Dimension("k2", "y"), Dimension("k1", "x")>>, IntDatum(3)),
     DataPoint("m", 3, "", <<Dimension("k1", ""), Dimension("k2", "y")>>, IntDatum(5)),
     DataPoint("m", 4, "", <<Dimension("k1", "x//"), Dimension("k2", "y")>>, IntDatum(5)),
     DataPoint("m", 5, "", <<Dimension("k1", "x"), Dimension("k2", "//y")>>, IntDatum(5)),
     DataPoint("m", 6, "", <<Dimension("k1", "x/"), Dimension("k2", "/y")>>, IntDatum(5))}

StepInit ==
    \/ \E rs \in KeyRuleLists, batch \in SeqsUpTo(KeyPoints, MaxPoints) :
            InitWith(rs, batch)
    \/ \E rs \in CopyRuleLists, batch \in SeqsUpTo(CopyPoints, MaxPoints) :
            InitWith(rs, batch)
    \/ \E rs \in SplitRuleLists, batch \in SeqsUpTo(SplitPoints, MaxPoints) :
            InitWith(rs, batch)
    \/ \E rs \in RenameRuleLists, batch \in SeqsUpTo(RenamePoints, MaxPoints) :
            InitWith(rs, batch)
    \/ \E rs \in ScaleRuleLists, batch \in SeqsUpTo(ScalePoints, MaxPoints) :
            InitWith(rs, batch)
    \/ \E rs \in ConvertRuleLists, batch \in SeqsUpTo(ConvertPoints, MaxPoints),
          arch \in {"amd64", "arm64"} :
            InitOn(rs, batch, arch)

\* a further call of TranslateDataPoints, on the batch the last call returned
TranslateDataPointsAgain ==
    /\ pc = "done"
    /\ calls < MaxCalls
    /\ pc' = "loop"
    /\ sfxDataPoints' = processedDataPoints
    /\ ruleIdx' = 1
    /\ heap0' = heap
    /\ calls' = calls + 1
    /\ translated' = Nil
    /\ UNCHANGED <<rules, mp, err, heap, processedDataPoints, prevDataPoints, prevHeap, goarch, goroutine, backing, exporter>>

\* a call of mp.TranslateDimension(orig), between the calls of TranslateDataPoints
CallTranslateDimension ==
    /\ pc \in {"ready", "done"}
    /\ \E orig \in DimensionNames :
            translated' = Ptr(<<orig, TranslateDimension(Deref(mp), orig)>>)
    /\ UNCHANGED <<rules, mp, err, pc, heap, sfxDataPoints, processedDataPoints,
                   ruleIdx, prevDataPoints, prevHeap, heap0, calls, goarch, goroutine, backing, exporter>>

StepNext ==
    \/ Next
    \/ TranslateDataPointsAgain
    \/ CallTranslateDimension

StepSpec == StepInit /\ [][StepNext]_vars

---------------------------------------------------------------------------
(* Runs to completion *)

\* one well-formed rule of every action and a copy_metrics rule whose target
\* is a key of its own mapping
TerminationRules == (WellFormedRules \ {RenameDimensionKeysRule2}) \cup {CopySelfRule}

\* every list of at most MaxRules of these rules, over the validation batch
TerminationInit ==
    \E rs \in SeqsUpTo(TerminationRules, MaxRules) : InitWith(rs, ValidationBatch)

\* a step of Next can be taken (ENABLED <<Next>>_vars): the constructor and
\* the entry of TranslateDataPoints always can; in the loop, the return can
\* once the rules are exhausted, and before that the iteration can if the
\* case of the rule leaves a result (a division by zero leaves none)
CanStep ==
    \/ pc \in {"new", "ready"}
    \/ /\ pc = "loop"
       /\ \/ ruleIdx > Len(Deref(mp).rules)
          \/ /\ translateCase(tr, heap, processedDataPoints) # {}
             /\ ~(tr.Action = ActionDivideInt
                    /\ \E k \in DOMAIN processedDataPoints :
                            divideIntPanics(tr, heap[processedDataPoints[k]]))

\* NewMetricTranslator and TranslateDataPoints are sequential code run by
\* the calling goroutine, so a step that can be taken is eventually taken:
\* weak fairness of Next, WF_vars(Next), with its ENABLED written as CanStep
Fairness == []<><<Next>>_vars \/ []<>(~CanStep)

TerminationSpec == TerminationInit /\ [][Next]_vars /\ Fairness

---------------------------------------------------------------------------
(* Concurrent calls of TranslateDataPoints on one engine.  Each call runs   *)
(* in its own goroutine; a step is one read or one write of a data point    *)
(* or of a slice element (or an allocation), so that the steps of the calls *)
(* interleave freely.  A slice is a header [off, len, cap] over the cells   *)
(* of `backing`: its elements are backing[off + 1 .. off + len], and an     *)
(* append writes backing[off + len + 1] when len < cap.                     *)

Goroutines == {1, 2}

Slice(off, len, cap) == [off |-> off, len |-> len, cap |-> cap]

\* s[i]
Elem(s, i) == backing[s.off + i]

\* the elements of s
Elems(s) == [k \in 1..s.len |-> backing[s.off + k]]

\* the cells of the backing array that s can reach: s[:cap(s)]
Cells(s) == (s.off + 1)..(s.off + s.cap)

\* append(s, ps...): the backing store and the slice it leaves.  With room
\* in the backing array the new elements are written after the last one;
\* without, the elements move to a new array (of twice the length needed)
append(s, ps) ==
    IF s.len + Len(ps) <= s.cap
    THEN [backing |-> [c \in DOMAIN backing |->
                          IF c \in (s.off + s.len + 1)..(s.off + s.len + Len(ps))
                          THEN ps[c - s.off - s.len] ELSE backing[c]],
          slice |-> Slice(s.off, s.len + Len(ps), s.cap)]
    ELSE [backing |-> backing \o Elems(s) \o ps \o [k \in 1..(s.len + Len(ps)) |-> 0],
          slice |-> Slice(Len(backing), s.len + Len(ps), 2 * (s.len + Len(ps)))]

\* the locals of a call that has not started: the slice it is given, the
\* working slice, the position in the two nested range loops (ruleIdx over
\* mp.rules, i over the slice `ranged` the inner range statement evaluated),
\* the pointer dp of the current iteration and the point val read through
\* it, and the locals of the
\* calculate_new_metric and aggregate_metric cases (dpsToAggregate and
\* otherDps are made by the call and held by value); `allocated` is
\* history: the addresses of the points the call has allocated
Locals(batch) ==
    [pc |-> "call", sfxDataPoints |-> batch, processedDataPoints |-> Slice(0, 0, 0),
     ruleIdx |-> 0, ranged |-> Slice(0, 0, 0), i |-> 0, dp |-> Nil, val |-> Nil,
     operand1 |-> 0, operand2 |-> 0, dpsToAggregate |-> <<>>, otherDps |-> <<>>,
     loaded |-> <<>>, allocated |-> {}]

\* rule lists of the concurrent scenarios: every action alone, and lists in
\* which a rule works on what the previous one left
ConcurrentRuleLists ==
    {<<r>> : r \in (WellFormedRules \ {RenameDimensionKeysRule2}) \cup {CopySelfRule}}
    \cup {<<RenameMetricsRule, MultiplyIntRule>>,
          <<CopyMetricsRule, AggregateMetricRule>>,
          <<CalculateNewMetricRule, ConvertValuesRule>>}

\* the batches handed to the calls (two calls may get batches with equal
\* contents; the points are distinct objects all the same)
ConcurrentBatches ==
    {<<DataPoint("a", 1, "", <<Dimension("k1", "x")>>, IntDatum(6)),
       DataPoint("b", 2, "", <<Dimension("k1", "x")>>, IntDatum(5))>>,
     <<DataPoint("a", 3, "", <<Dimension("k1", "y")>>, FloatDatum(5, 2)),
       DataPoint("a", 1, "", <<Dimension("k1", "x")>>, IntDatum(6))>>,
     <<DataPoint("b", 4, "", <<>>, IntDatum(3))>>}

\* the state before NewMetricTranslator, with two batches of distinct
\* points on the heap, one for each call to come.  The two slices are
\* either slices of two arrays, or the two halves all[:n] and all[n:] of
\* one array: no element in common, but the first has the cells of the
\* second within its capacity
ConcurrentInit ==
    \E rs \in ConcurrentRuleLists, b1 \in ConcurrentBatches, b2 \in ConcurrentBatches,
       oneArray \in BOOLEAN :
        /\ goarch = "amd64"
        /\ rules = rs
        /\ mp = Nil
        /\ err = "nil"
        /\ pc = "new"
        /\ heap = b1 \o b2
        /\ heap0 = b1 \o b2
        /\ backing = [c \in 1..(Len(b1) + Len(b2)) |-> c]
        /\ sfxDataPoints = <<>>
        /\ processedDataPoints = <<>>
        /\ ruleIdx = 0
        /\ prevDataPoints = <<>>
        /\ prevHeap = <<>>
        /\ calls = 0
        /\ translated = Nil
        /\ goroutine = [g \in Goroutines |->
                Locals(IF g = 1
                       THEN Slice(0, Len(b1),
                                  IF oneArray THEN Len(b1) + Len(b2) ELSE Len(b1))
                       ELSE Slice(Len(b1), Len(b2), Len(b2)))]
        /\ exporter = <<>>

\* what a call neither reads into its locals nor writes: the engine and the
\* state of the single-call specifications
engineVars == <<rules, mp, err, pc, sfxDataPoints, processedDataPoints, ruleIdx,
                prevDataPoints, prevHeap, heap0, calls, translated, goarch,
                exporter>>

\* the rule of the current iteration of for _, tr := range mp.rules in g
trOf(g) == Deref(mp).rules[goroutine[g].ruleIdx]

\* the actions whose case is a loop that updates each point in place
InPlaceActions ==
    {ActionRenameDimensionKeys, ActionRenameMetrics, ActionMultiplyInt, ActionDivideInt,
     ActionMultiplyFloat, ActionSplitMetric, ActionConvertValues}

\* the locals of g become l; nothing shared is written
Local(g, l) ==
    /\ goroutine' = [goroutine EXCEPT ![g] = l]
    /\ UNCHANGED <<heap, backing>>
    /\ UNCHANGED engineVars

\* the points pts are allocated and appended to the slice s, which becomes
\* the working slice of g, whose other locals become l
AllocAppend(g, l, s, pts) ==
    LET a == append(s, [k \in DOMAIN pts |-> Len(heap) + k])
    IN /\ heap' = heap \o pts
       /\ backing' = a.backing
       /\ goroutine' = [goroutine EXCEPT ![g] =
            [l EXCEPT !.processedDataPoints = a.slice,
                      !.allocated = l.allocated \cup ((Len(heap) + 1)..(Len(heap) + Len(pts)))]]
       /\ UNCHANGED engineVars

\* entry of TranslateDataPoints: processedDataPoints := sfxDataPoints
Enter(g) ==
    /\ pc = "ready"
    /\ goroutine[g].pc = "call"
    /\ Local(g, [goroutine[g] EXCEPT
                    !.pc = "loop",
                    !.processedDataPoints = goroutine[g].sfxDataPoints,
                    !.ruleIdx = 1])

\* the next rule: its range statement evaluates processedDataPoints once
BeginCase(g) ==
    /\ goroutine[g].pc = "loop"
    /\ goroutine[g].ruleIdx <= Len(Deref(mp).rules)
    /\ Local(g, [goroutine[g] EXCEPT
                    !.pc = "range",
                    !.ranged = goroutine[g].processedDataPoints,
                    !.i = 1,
                    !.dp = Nil,
                    !.operand1 = 0, !.operand2 = 0,
                    !.dpsToAggregate = <<>>, !.otherDps = <<>>,
                    !.loaded = <<>>])

\* the next element of the range loop is read: dp is the pointer the slice
\* holds now
Load(g) ==
    /\ goroutine[g].pc = "range"
    /\ goroutine[g].i <= goroutine[g].ranged.len
    /\ Local(g, [goroutine[g] EXCEPT
                    !.pc = "elem",
                    !.dp = Ptr(Elem(goroutine[g].ranged, goroutine[g].i))])

\* the body of the loop reads the point through dp
Read(g) ==
    /\ goroutine[g].pc = "elem"
    /\ Local(g, [goroutine[g] EXCEPT
                    !.pc = "visit",
                    !.val = Ptr(heap[Deref(goroutine[g].dp)])])

\* the point as the body of the loop has read it
PointOf(g) == Deref(goroutine[g].val)

\* the locals of g after the body of the loop
Visited(g) ==
    [goroutine[g] EXCEPT !.pc = "range", !.i = goroutine[g].i + 1, !.dp = Nil, !.val = Nil]

\* mutant: the updated point is written at the loop index, not at the
\* address the slice holds at that index
Store_AtIndex(g) ==
    /\ goroutine[g].pc = "visit"
    /\ trOf(g).Action \in InPlaceActions
    /\ heap' = [heap EXCEPT ![goroutine[g].i] = inPlacePoint(trOf(g), PointOf(g))]
    /\ goroutine' = [goroutine EXCEPT ![g] = Visited(g)]
    /\ UNCHANGED backing
    /\ UNCHANGED engineVars

\* body of the loop of an in-place case: the point is updated
Store(g) ==
    /\ goroutine[g].pc = "visit"
    /\ trOf(g).Action \in InPlaceActions
    /\ heap' = [heap EXCEPT ![Deref(goroutine[g].dp)] = inPlacePoint(trOf(g), PointOf(g))]
    /\ goroutine' = [goroutine EXCEPT ![g] = Visited(g)]
    /\ UNCHANGED backing
    /\ UNCHANGED engineVars

\* body of the loop of case ActionCopyMetrics: a copy is allocated and
\* appended to processedDataPoints
AppendCopy(g) ==
    /\ goroutine[g].pc = "visit"
    /\ trOf(g).Action = ActionCopyMetrics
    /\ LET newDataPoint ==
            IF MapHas(trOf(g).Mapping, PointOf(g).Metric)
            THEN copyMetric(trOf(g), PointOf(g), MapGet(trOf(g).Mapping, PointOf(g).Metric))
            ELSE Nil
       IN IF newDataPoint = Nil
          THEN Local(g, Visited(g))
          ELSE AllocAppend(g, Visited(g), goroutine[g].processedDataPoints,
                           <<Deref(newDataPoint)>>)

\* body of the scan loop of case ActionCalculateNewMetric
NoteOperand(g) ==
    /\ goroutine[g].pc = "visit"
    /\ trOf(g).Action = ActionCalculateNewMetric
    /\ Local(g, [Visited(g) EXCEPT
                !.operand1 = IF PointOf(g).Metric = trOf(g).Operand1Metric
                             THEN Deref(goroutine[g].dp) ELSE goroutine[g].operand1,
                !.operand2 = IF PointOf(g).Metric # trOf(g).Operand1Metric
                                /\ PointOf(g).Metric = trOf(g).Operand2Metric
                             THEN Deref(goroutine[g].dp) ELSE goroutine[g].operand2])

\* body of the partition loop of case ActionAggregateMetric
Partition(g) ==
    /\ goroutine[g].pc = "visit"
    /\ trOf(g).Action = ActionAggregateMetric
    /\ Local(g, [Visited(g) EXCEPT
                !.dpsToAggregate = IF PointOf(g).Metric = trOf(g).MetricName
                                   THEN Append(goroutine[g].dpsToAggregate,
                                               Deref(goroutine[g].dp))
                                   ELSE goroutine[g].dpsToAggregate,
                !.otherDps = IF PointOf(g).Metric = trOf(g).MetricName
                             THEN goroutine[g].otherDps
                             ELSE Append(goroutine[g].otherDps, Deref(goroutine[g].dp))])

\* the range loop of the case is over: the in-place and the copy cases are
\* done; calculate_new_metric goes on to its operands, aggregate_metric to
\* aggregateDatapoints
EndRange(g) ==
    /\ goroutine[g].pc = "range"
    /\ goroutine[g].i > goroutine[g].ranged.len
    /\ Local(g, [goroutine[g] EXCEPT
                !.pc = CASE trOf(g).Action = ActionCalculateNewMetric -> "operand1"
                         [] trOf(g).Action = ActionAggregateMetric -> "aggregate"
                         [] OTHER -> "loop",
                !.i = 1,
                !.ruleIdx = IF trOf(g).Action \in {ActionCalculateNewMetric,
                                                   ActionAggregateMetric}
                            THEN goroutine[g].ruleIdx ELSE goroutine[g].ruleIdx + 1])

\* calculateNewMetric reads operand1 ...
LoadOperand1(g) ==
    /\ goroutine[g].pc = "operand1"
    /\ Local(g, [goroutine[g] EXCEPT
                !.pc = "operand2",
                !.loaded = <<IF goroutine[g].operand1 = 0 THEN Nil
                             ELSE Ptr(heap[goroutine[g].operand1])>>])

\* ... and operand2
LoadOperand2(g) ==
    /\ goroutine[g].pc = "operand2"
    /\ Local(g, [goroutine[g] EXCEPT
                !.pc = "newPt",
                !.loaded = Append(goroutine[g].loaded,
                                  IF goroutine[g].operand2 = 0 THEN Nil
                                  ELSE Ptr(heap[goroutine[g].operand2]))])

\* the locals of g after the case of the rule
CaseDone(g) ==
    [goroutine[g] EXCEPT !.pc = "loop", !.ruleIdx = goroutine[g].ruleIdx + 1,
                         !.loaded = <<>>]

\* the new point, if any, is allocated and appended to processedDataPoints
AppendNewPt(g) ==
    /\ goroutine[g].pc = "newPt"
    /\ LET newPt == calculateNewMetric(goroutine[g].loaded[1], goroutine[g].loaded[2],
                                       trOf(g))
       IN IF newPt = Nil
          THEN Local(g, CaseDone(g))
          ELSE AllocAppend(g, CaseDone(g), goroutine[g].processedDataPoints,
                           <<Deref(newPt)>>)

\* aggregateDatapoints reads the next point to aggregate
LoadToAggregate(g) ==
    /\ goroutine[g].pc = "aggregate"
    /\ goroutine[g].i <= Len(goroutine[g].dpsToAggregate)
    /\ Local(g, [goroutine[g] EXCEPT
                !.i = goroutine[g].i + 1,
                !.loaded = Append(goroutine[g].loaded,
                                  heap[goroutine[g].dpsToAggregate[goroutine[g].i]])])

\* the aggregated points are allocated;
\* processedDataPoints = append(otherDps, aggregatedDps...), otherDps being
\* a slice the call has made, with no room left or nil
AppendAggregated(g) ==
    /\ goroutine[g].pc = "aggregate"
    /\ goroutine[g].i > Len(goroutine[g].dpsToAggregate)
    /\ \E aggregatedDps \in aggregateDatapoints(goroutine[g].loaded, trOf(g).Dimensions,
                                                trOf(g).AggregationMethod) :
            /\ heap' = heap \o aggregatedDps
            /\ backing' = backing \o goroutine[g].otherDps
                                  \o [k \in DOMAIN aggregatedDps |-> Len(heap) + k]
            /\ goroutine' = [goroutine EXCEPT ![g] =
                    [CaseDone(g) EXCEPT
                        !.processedDataPoints =
                            Slice(Len(backing),
                                  Len(goroutine[g].otherDps) + Len(aggregatedDps),
                                  Len(goroutine[g].otherDps) + Len(aggregatedDps)),
                        !.allocated = goroutine[g].allocated \cup
                                ((Len(heap) + 1)..(Len(heap) + Len(aggregatedDps)))]]
            /\ UNCHANGED engineVars

\* return processedDataPoints
ReturnBatch(g) ==
    /\ goroutine[g].pc = "loop"
    /\ goroutine[g].ruleIdx > Len(Deref(mp).rules)
    /\ Local(g, [goroutine[g] EXCEPT !.pc = "done"])

ConcurrentNext ==
    \/ NewMetricTranslator
    \/ \E g \in Goroutines :
            \/ Enter(g)
            \/ BeginCase(g)
            \/ Load(g)
            \/ Read(g)
            \/ Store(g)
            \/ AppendCopy(g)
            \/ NoteOperand(g)
            \/ Partition(g)
            \/ EndRange(g)
            \/ LoadOperand1(g)
            \/ LoadOperand2(g)
            \/ AppendNewPt(g)
            \/ LoadToAggregate(g)
            \/ AppendAggregated(g)
            \/ ReturnBatch(g)

ConcurrentSpec == ConcurrentInit /\ [][ConcurrentNext]_vars

---------------------------------------------------------------------------
(* The trace exporter (exporter/datadogagentexporter).  NewTraceExporter    *)
(* builds an exporter whose push function converts every span of the        *)
(* pdata.Traces it is given to a ddSpan, groups the ddSpans by trace ID     *)
(* and hands the groups to sendTraces.  ResourceSpans,                      *)
(* InstrumentationLibrarySpans and Span are nullable wrappers: Nil, or      *)
(* Ptr of their content.  A span carries a 16-byte trace ID and an 8-byte   *)
(* span ID, as the receivers of the collector produce them.                 *)

MaxSpans == 3

\* a 16-byte trace ID, as its two big-endian 64-bit halves
\* <<bytes 0..7, bytes 8..15>>
TraceIDs == {<<hi, lo>> : hi \in {0, 1}, lo \in {1, 2}}

\* the k-th span slot of an export call: its span ID and start time tell
\* the spans of one call apart
SpanAt(traceID, k) ==
    [TraceID |-> traceID, SpanID |-> k, Name |-> "span_name", StartTime |-> k]

\* the span slots of a call: each Nil or a span of one of the trace IDs
SpanSlots ==
    UNION {{[k \in 1..n |-> IF f[k] = Nil THEN Nil ELSE Ptr(SpanAt(Deref(f[k]), k))] :
                f \in [1..n -> {Nil} \cup {Ptr(t) : t \in TraceIDs}]} : n \in 0..MaxSpans}

\* the pdata.Traces over the span slots q: all in one instrumentation
\* library (as constructTracesFromSpans builds them), one resource per
\* span, behind a nil ResourceSpans and a nil InstrumentationLibrarySpans,
\* or split over two libraries of one resource
TracesOver(q) ==
    {<<Ptr(<<Ptr(q)>>)>>,
     [k \in DOMAIN q |-> Ptr(<<Ptr(<<q[k]>>)>>)],
     <<Nil, Ptr(<<Nil, Ptr(q)>>)>>}
    \cup (IF q = <<>> THEN {}
          ELSE {<<Ptr(<<Ptr(SubSeq(q, 1, 1)), Ptr(SubSeq(q, 2, Len(q)))>>)>>})

ExportTraces == UNION {TracesOver(q) : q \in SpanSlots}

ExportConfig == [AgentURL |-> "http://localhost:8126", ServiceName |-> "test_service"]

\* how far sendTraces gets: the payload does not encode, the request cannot
\* be built, the agent cannot be reached, or the request is answered
SendOutcomes == {"encode", "request", "do", "ok"}

\* convertSpan: the ddSpan of s and the error returned, which is always nil.
\* TraceID is binary.BigEndian.Uint64 of bytes 8..15 of the trace ID: only
\* the last 64 bits are used.  (Type, Error, Meta and Metrics are left out.)
convertSpan(serviceName, s) ==
    [span |-> [TraceID  |-> s.TraceID[2],
               SpanID   |-> s.SpanID,
               Name     |-> s.Name,
               Resource |-> s.Name,
               Service  |-> serviceName,
               Start    |-> s.StartTime],
     err |-> "nil"]

\* traceIndex, ok := traceIDToIndex[ddspan.TraceID]; a trace ID not seen
\* yet gets the next index and an empty group; the span is appended to the
\* group of its trace ID.  Indices count from 0 as in the code.
groupSpan_Last(st, ddspan) ==
    LET traces1 == IF st.traces = <<>> THEN <<<<>>>> ELSE st.traces
    IN  [st EXCEPT !.traces = [traces1 EXCEPT ![Len(traces1)] = Append(@, ddspan)]]

groupSpan(st, ddspan) ==
    LET ok == ddspan.TraceID \in DOMAIN st.traceIDToIndex
        traceIndex == IF ok THEN st.traceIDToIndex[ddspan.TraceID] ELSE Len(st.traces)
        traceIDToIndex1 ==
            IF ok THEN st.traceIDToIndex
            ELSE [id \in DOMAIN st.traceIDToIndex \cup {ddspan.TraceID} |->
                    IF id = ddspan.TraceID THEN traceIndex ELSE st.traceIDToIndex[id]]
        traces1 == IF ok THEN st.traces ELSE Append(st.traces, <<>>)
    IN  [st EXCEPT !.traceIDToIndex = traceIDToIndex1,
                   !.traces = [traces1 EXCEPT ![traceIndex + 1] = Append(@, ddspan)]]

\* the body of the loop over the spans of a library: a nil span is skipped,
\* a span that does not convert is counted as dropped, any other is grouped
spanBody(st, serviceName, span) ==
    IF span = Nil THEN st
    ELSE LET r == convertSpan(serviceName, Deref(span))
         IN  IF r.err # "nil"
             THEN [st EXCEPT !.totalDroppedSpans = @ + 1]
             ELSE groupSpan(st, r.span)

\* for k := 0; k < spans.Len(); k++
RECURSIVE spansLoop(_, _, _, _)
spansLoop(st, serviceName, spans, k) ==
    IF k > Len(spans) THEN st
    ELSE spansLoop(spanBody(st, serviceName, spans[k]), serviceName, spans, k + 1)

\* for j := 0; j < rspans.InstrumentationLibrarySpans().Len(); j++
RECURSIVE librariesLoop(_, _, _, _)
librariesLoop(st, serviceName, libraries, j) ==
    IF j > Len(libraries) THEN st
    ELSE LET ispans == libraries[j]
         IN  librariesLoop(IF ispans = Nil THEN st
                           ELSE spansLoop(st, serviceName, Deref(ispans), 1),
                           serviceName, libraries, j + 1)

\* for i := 0; i < td.ResourceSpans().Len(); i++
RECURSIVE resourcesLoop(_, _, _, _)
resourcesLoop(st, serviceName, td, i) ==
    IF i > Len(td) THEN st
    ELSE LET rspans == td[i]
         IN  resourcesLoop(IF rspans = Nil THEN st
                           ELSE librariesLoop(st, serviceName, Deref(rspans), 1),
                           serviceName, td, i + 1)

RECURSIVE numSpans(_)
numSpans(traces) ==
    IF traces = <<>> THEN 0 ELSE Len(Head(traces)) + numSpans(Tail(traces))

\* sendTraces: (droppedSpans, err) for each way the sending can go
sendTraces(config, traces, outcome) ==
    CASE outcome = "encode"  -> [droppedSpans |-> numSpans(traces), err |-> "permanent"]
      [] outcome = "request" -> [droppedSpans |-> numSpans(traces), err |-> "permanent"]
      [] outcome = "do"      -> [droppedSpans |-> numSpans(traces), err |-> "error"]
      [] outcome = "ok"      -> [droppedSpans |-> 0, err |-> "nil"]

\* the push function: the groups it built, what sendTraces returned to it,
\* and the (totalDroppedSpans, err) it returns.  The result of sendTraces
\* is discarded and the named result err is never assigned.
pushTraceData_Propagate(config, td, outcome) ==
    LET st == resourcesLoop([traceIDToIndex |-> <<>>, traces |-> <<>>,
                             totalDroppedSpans |-> 0], config.ServiceName, td, 1)
        sent == sendTraces(config, st.traces, outcome)
    IN  [traces |-> st.traces, sent |-> sent,
         totalDroppedSpans |-> sent.droppedSpans, err |-> sent.err]

pushTraceData(config, td, outcome) ==
    LET st == resourcesLoop([traceIDToIndex |-> <<>>, traces |-> <<>>,
                             totalDroppedSpans |-> 0], config.ServiceName, td, 1)
        sent == sendTraces(config, st.traces, outcome)
    IN  [traces |-> st.traces, sent |-> sent,
         totalDroppedSpans |-> st.totalDroppedSpans, err |-> "nil"]

\* the state of the translator, which the exporter does not touch
translatorVars == <<rules, mp, err, pc, heap, sfxDataPoints, processedDataPoints,
                    ruleIdx, prevDataPoints, prevHeap, heap0, calls, translated,
                    goarch, goroutine, backing>>

ExportInit ==
    /\ goarch = "amd64"
    /\ rules = <<>>
    /\ mp = Nil
    /\ err = "nil"
    /\ pc = "new"
    /\ heap = <<>>
    /\ sfxDataPoints = <<>>
    /\ processedDataPoints = <<>>
    /\ ruleIdx = 0
    /\ prevDataPoints = <<>>
    /\ prevHeap = <<>>
    /\ heap0 = <<>>
    /\ calls = 0
    /\ translated = Nil
    /\ goroutine = <<>>
    /\ backing = <<>>
    /\ \E td \in ExportTraces :
            exporter = [pc |-> "new", config |-> ExportConfig, td |-> td,
                        traces |-> <<>>, sent |-> Nil,
                        totalDroppedSpans |-> 0, err |-> "nil"]

\* NewTraceExporter: the exporter with its http.Client and push function
NewTraceExporter ==
    /\ exporter.pc = "new"
    /\ exporter' = [exporter EXCEPT !.pc = "ready"]
    /\ UNCHANGED translatorVars

\* ConsumeTraces of the exporter: one call of the push function on td
ConsumeTraces ==
    /\ exporter.pc = "ready"
    /\ \E outcome \in SendOutcomes :
            LET r == pushTraceData(exporter.config, exporter.td, outcome)
            IN  exporter' = [exporter EXCEPT !.pc = "done",
                                             !.traces = r.traces,
                                             !.sent = Ptr(r.sent),
                                             !.totalDroppedSpans = r.totalDroppedSpans,
                                             !.err = r.err]
    /\ UNCHANGED translatorVars

ExportNext == NewTraceExporter \/ ConsumeTraces

ExportSpec == ExportInit /\ [][ExportNext]_vars

---------------------------------------------------------------------------
(* Vocabulary of the properties *)

\* the loop iteration that has just ended was the case `action`
AfterCase(action) ==
    /\ pc \in {"loop", "done"}
    /\ ruleIdx > 1
    /\ Deref(mp).rules[ruleIdx - 1].Action = action

\* the rule of the iteration that has just ended
lastRule == Deref(mp).rules[ruleIdx - 1]

\* the working batch before and after the iteration that has just ended
Before == Points(prevHeap, prevDataPoints)

After == Points(heap, processedDataPoints)

\* a rule that meets the requirements its action puts on its own fields
RuleWellFormed(r) ==
    \/ /\ r.Action \in {ActionRenameDimensionKeys, ActionRenameMetrics}
       /\ r.Mapping # Nil
    \/ /\ r.Action = ActionMultiplyInt
       /\ r.ScaleFactorsInt # Nil
    \/ /\ r.Action = ActionDivideInt
       /\ r.ScaleFactorsInt # Nil
       /\ 0 \notin Range(Deref(r.ScaleFactorsInt))
    \/ /\ r.Action = ActionMultiplyFloat
       /\ r.ScaleFactorsFloat # Nil
    \/ /\ r.Action = ActionCopyMetrics
       /\ r.Mapping # Nil
       /\ r.DimensionKey # "" => (r.DimensionValues # Nil /\ DOMAIN Deref(r.DimensionValues) # {})
    \/ /\ r.Action = ActionSplitMetric
       /\ r.Mapping # Nil
       /\ r.MetricName # ""
       /\ r.DimensionKey # ""
    \/ /\ r.Action = ActionConvertValues
       /\ r.TypesMapping # Nil
       /\ Range(Deref(r.TypesMapping)) \subseteq {"int", "double"}
    \/ /\ r.Action = ActionAggregateMetric
       /\ r.MetricName # ""
       /\ r.Dimensions # <<>>
       /\ r.AggregationMethod \in {"count", "sum"}
    \/ /\ r.Action = ActionCalculateNewMetric
       /\ r.MetricName # ""
       /\ r.Operand1Metric # ""
       /\ r.Operand2Metric # ""
       /\ r.Operator = "/"

RenameDimensionKeysAt(rs) == {k \in DOMAIN rs : rs[k].Action = ActionRenameDimensionKeys}

\* a rule list in which every rule is well-formed, the singleton rule
\* rename_dimension_keys occurring at most once
RulesWellFormed(rs) ==
    /\ \A k \in DOMAIN rs : RuleWellFormed(rs[k])
    /\ Cardinality(RenameDimensionKeysAt(rs)) <= 1

---------------------------------------------------------------------------
(* C1: NewMetricTranslator returns a non-nil engine and a nil error exactly *)
(* when every rule of the list is well-formed; otherwise it returns an      *)
(* error and a nil engine.  An engine, when returned, holds the whole rule  *)
(* list (never a part of it).                                               *)
C1_ValidationTotal ==
    pc # "new" =>
        /\ (mp # Nil /\ err = "nil") <=> RulesWellFormed(rules)
        /\ (mp = Nil /\ err # "nil") <=> ~RulesWellFormed(rules)
        /\ mp # Nil => Deref(mp).rules = rules

\* a list whose only malformed rule is the last one has been rejected
C1_Witness ==
    /\ pc = "failed"
    /\ Len(rules) = 3
    /\ RuleWellFormed(rules[1])
    /\ RuleWellFormed(rules[2])
    /\ rules[1].Action # rules[2].Action
    /\ rules[3].Action = ActionAggregateMetric
    /\ rules[3].AggregationMethod = "avg"
    /\ mp = Nil
    /\ err = ErrInvalidAggregationMethod

(* C2: a rule list with two or more rename_dimension_keys rules fails       *)
(* validation wherever they stand; a constructed engine holds at most one,  *)
(* and its dimensionsMap is exactly that rule's mapping.                    *)
C2_SingleRenameDimensionKeys ==
    /\ (pc # "new" /\ Cardinality(RenameDimensionKeysAt(rules)) >= 2) =>
            (mp = Nil /\ err # "nil")
    /\ mp # Nil =>
            /\ Cardinality(RenameDimensionKeysAt(Deref(mp).rules)) <= 1
            /\ \A k \in RenameDimensionKeysAt(Deref(mp).rules) :
                    Deref(mp).dimensionsMap = Deref(mp).rules[k].Mapping
            /\ RenameDimensionKeysAt(Deref(mp).rules) = {} =>
                    Deref(mp).dimensionsMap = Nil

\* two otherwise valid rename_dimension_keys rules with another rule between
\* them have been rejected for the duplicate
C2_Witness ==
    /\ pc = "failed"
    /\ Len(rules) = 3
    /\ RenameDimensionKeysAt(rules) = {1, 3}
    /\ rules[1] # rules[3]
    /\ \A k \in 1..3 : RuleWellFormed(rules[k])
    /\ err = ErrOnlyOneRenameDimensionKeys
    /\ mp = Nil

(* C3: a divide_int rule with a zero scale factor for any metric is         *)
(* rejected at construction, so no divide_int iteration of                  *)
(* TranslateDataPoints of a constructed engine divides by zero.             *)
C3_NoDivisionByZero ==
    /\ pc # "panic"
    /\ (pc # "new" /\ \E k \in DOMAIN rules :
                        /\ rules[k].Action = ActionDivideInt
                        /\ rules[k].ScaleFactorsInt # Nil
                        /\ 0 \in Range(Deref(rules[k].ScaleFactorsInt)))
            => (mp = Nil /\ err # "nil")
    /\ (pc = "loop" /\ ruleIdx <= Len(Deref(mp).rules)
                    /\ Deref(mp).rules[ruleIdx].Action = ActionDivideInt)
            => \A k \in DOMAIN processedDataPoints :
                    ~divideIntPanics(Deref(mp).rules[ruleIdx], heap[processedDataPoints[k]])

\* a divide_int iteration has divided the integer of a point
C3_Witness ==
    /\ AfterCase(ActionDivideInt)
    /\ \E k \in DOMAIN prevDataPoints :
            /\ Before[k].Value.IntValue = Ptr(5)
            /\ After[k].Value.IntValue = Ptr(2)

---------------------------------------------------------------------------
\* the results of applying the rules rs[k..] one after the other, as
\* single-rule transforms, to each of the batches in S
RECURSIVE ApplyInOrder(_, _, _)
ApplyInOrder(rs, k, S) ==
    IF k > Len(rs) THEN S
    ELSE ApplyInOrder(rs, k + 1, UNION {translateCase(rs[k], st.heap, st.dps) : st \in S})

\* the points of the input batch that were named `metric` at the call
InputNamed(metric) == {p \in Range(sfxDataPoints) : heap0[p].Metric = metric}

(* C4: TranslateDataPoints applies the rules in list order, each to the     *)
(* batch left by the previous one: its result is the result of applying     *)
(* r1, then r2, ..., then rn as single-rule transforms.  A rename_metrics   *)
(* a->b followed by a scale rule keyed on b scales the renamed points; the  *)
(* same scale rule placed before the rename leaves them unscaled.           *)
C4_ListOrder ==
    /\ pc \in {"loop", "done"} =>
            [heap |-> heap, dps |-> processedDataPoints] \in
                ApplyInOrder(SubSeq(rules, 1, ruleIdx - 1), 1,
                             {[heap |-> heap0, dps |-> sfxDataPoints]})
    /\ (pc = "done" /\ rules = <<RenameMetricsRule, MultiplyIntRule>>) =>
            \A p \in InputNamed("a") :
                /\ heap[p].Metric = "b"
                /\ heap0[p].Value.IntValue # Nil =>
                        heap[p].Value.IntValue =
                            Ptr(WrapInt64(3 * Deref(heap0[p].Value.IntValue)))
    /\ (pc = "done" /\ rules = <<MultiplyIntRule, RenameMetricsRule>>) =>
            \A p \in InputNamed("a") :
                /\ heap[p].Metric = "b"
                /\ heap[p].Value = heap0[p].Value
    /\ (pc = "done" /\ rules = <<RenameMetricsRule, MultiplyFloatRule>>) =>
            \A p \in InputNamed("a") :
                /\ heap[p].Metric = "b"
                /\ heap0[p].Value.DoubleValue = Ptr(<<5, 2>>) =>
                        heap[p].Value.DoubleValue = Ptr(<<25, 1>>)
    /\ (pc = "done" /\ rules = <<MultiplyFloatRule, RenameMetricsRule>>) =>
            \A p \in InputNamed("a") :
                /\ heap[p].Metric = "b"
                /\ heap[p].Value = heap0[p].Value

\* rename a->b then multiply_int {b: 3} has turned the point a = 6 into b = 18
C4_Witness ==
    /\ pc = "done"
    /\ rules = <<RenameMetricsRule, MultiplyIntRule>>
    /\ \E p \in InputNamed("a") :
            /\ heap0[p].Value.IntValue = Ptr(6)
            /\ heap[p].Metric = "b"
            /\ heap[p].Value.IntValue = Ptr(18)

---------------------------------------------------------------------------
(* Vocabulary of the aggregate_metric properties; all of it is read in a    *)
(* state where AfterCase(ActionAggregateMetric) holds.                      *)

\* positions in the batch before the step of the points named as the rule
MatchingAt == {k \in DOMAIN Before : Before[k].Metric = lastRule.MetricName}

NumOthers == Len(Before) - Cardinality(MatchingAt)

\* dp carries every key of keys
HasEveryKey(dp, keys) ==
    \A j \in DOMAIN keys : \E k \in DOMAIN dp.Dimensions : dp.Dimensions[k].Key = keys[j]

\* the matching points that carry every configured dimension key
Eligible == {k \in MatchingAt : HasEveryKey(Before[k], lastRule.Dimensions)}

\* the composite dimension key of a point (Nil when it lacks a key)
CompositeKey(dp) == getAggregationKey(dp.Dimensions, lastRule.Dimensions)

GroupKeys == {CompositeKey(Before[k]) : k \in Eligible}

\* the members of the group with this composite key
GroupOf(key) == {k \in Eligible : CompositeKey(Before[k]) = key}

\* the points the step has put after the non-matching ones
Aggregated == SubSeq(After, NumOthers + 1, Len(After))

Min(S) == CHOOSE x \in S : \A y \in S : x <= y

RECURSIVE SumSeq(_)
SumSeq(q) == IF q = <<>> THEN 0 ELSE Head(q) + SumSeq(Tail(q))

\* the sum of the integers of the points of Before at the positions in S
RECURSIVE IntSum(_)
IntSum(S) ==
    IF S = {} THEN 0
    ELSE LET k == CHOOSE k \in S : TRUE
         IN Deref(Before[k].Value.IntValue) + IntSum(S \ {k})

\* the sum <<num, den>> of the floats of the points of Before at the positions in S
RECURSIVE RatSum(_)
RatSum(S) ==
    IF S = {} THEN <<0, 1>>
    ELSE LET k == CHOOSE k \in S : TRUE
             x == Deref(Before[k].Value.DoubleValue)
             r == RatSum(S \ {k})
         IN <<x[1] * r[2] + r[1] * x[2], x[2] * r[2]>>

(* C5: an aggregate_metric step with method count produces exactly one     *)
(* point per group of matching points (per composite dimension key), whose  *)
(* integer value is the number of members of the group; the counts add up   *)
(* to the number of matching points that carry every configured key.        *)
C5_Count ==
    (AfterCase(ActionAggregateMetric) /\ lastRule.AggregationMethod = "count") =>
        /\ Len(Aggregated) = Cardinality(GroupKeys)
        /\ \A key \in GroupKeys :
              Cardinality({n \in DOMAIN Aggregated : CompositeKey(Aggregated[n]) = key}) = 1
        /\ \A n \in DOMAIN Aggregated :
              /\ Aggregated[n].Value.DoubleValue = Nil
              /\ Aggregated[n].Value.IntValue =
                    Ptr(Cardinality(GroupOf(CompositeKey(Aggregated[n]))))
              /\ Aggregated[n].MetricType = MetricType_GAUGE
        /\ SumSeq([n \in DOMAIN Aggregated |-> Deref(Aggregated[n].Value.IntValue)])
              = Cardinality(Eligible)

\* three points sharing one composite key have given one point of value 3
C5_Witness ==
    /\ AfterCase(ActionAggregateMetric)
    /\ lastRule.AggregationMethod = "count"
    /\ lastRule.Dimensions = <<"k1", "k2">>
    /\ Cardinality(Eligible) = 3
    /\ Len(Aggregated) = 1
    /\ Aggregated[1].Value = Datum(Ptr(3), Nil)

(* C6: an aggregate_metric step with method sum accumulates the integer    *)
(* and the floating-point contributions of a group independently: the       *)
(* result's integer field is set iff some member holds an integer and is    *)
(* then the (int64) sum of the members' integers, and likewise the          *)
(* floating-point field; the two are never merged.                          *)
C6_Sum ==
    (AfterCase(ActionAggregateMetric) /\ lastRule.AggregationMethod = "sum") =>
        \A n \in DOMAIN Aggregated :
            LET group == GroupOf(CompositeKey(Aggregated[n]))
                ints == {k \in group : Before[k].Value.IntValue # Nil}
                floats == {k \in group : Before[k].Value.DoubleValue # Nil}
                v == Aggregated[n].Value
            IN /\ group # {}
               /\ v.IntValue # Nil <=> ints # {}
               /\ v.DoubleValue # Nil <=> floats # {}
               /\ ints # {} => Deref(v.IntValue) = WrapInt64(IntSum(ints))
               /\ floats # {} =>
                     /\ Deref(v.DoubleValue)[2] > 0
                     /\ Deref(v.DoubleValue)[1] * RatSum(floats)[2]
                            = RatSum(floats)[1] * Deref(v.DoubleValue)[2]

\* the members 5 (int), 3 (int) and 2.5 (float) of one group have given the
\* integer 8 and the float 2.5
C6_Witness ==
    /\ AfterCase(ActionAggregateMetric)
    /\ lastRule.AggregationMethod = "sum"
    /\ Len(Aggregated) = 1
    /\ {Before[k].Value : k \in GroupOf(CompositeKey(Aggregated[1]))}
            = {Datum(Ptr(5), Nil), Datum(Ptr(3), Nil), Datum(Nil, Ptr(<<5, 2>>))}
    /\ Cardinality(GroupOf(CompositeKey(Aggregated[1]))) = 3
    /\ Aggregated[1].Value = Datum(Ptr(8), Ptr(<<5, 2>>))

(* C7: every point produced by an aggregate_metric step carries exactly    *)
(* the configured dimension keys, one dimension per configured key, in the  *)
(* configured order, each with the value the first member of its group has  *)
(* for that key, also when a member's dimension list holds a key more than  *)
(* once.                                                                    *)
C7_ExactlyConfiguredKeys ==
    AfterCase(ActionAggregateMetric) =>
        \A n \in DOMAIN Aggregated :
            LET out == Aggregated[n]
                group == GroupOf(CompositeKey(out))
            IN /\ group # {}
               /\ Len(out.Dimensions) = Len(lastRule.Dimensions)
               /\ \A j \in DOMAIN out.Dimensions :
                     /\ out.Dimensions[j].Key = lastRule.Dimensions[j]
                     /\ \E d \in Range(Before[Min(group)].Dimensions) :
                            d = out.Dimensions[j]

(* C8: after an aggregate_metric step the working batch is the points not   *)
(* named as the rule, unchanged and in their order, followed by the         *)
(* aggregated points; no original matching point remains; a matching point  *)
(* lacking a configured key is in no group and represents none; a batch     *)
(* with no matching point is left as it was.                                *)
C8_AggregateFrame ==
    AfterCase(ActionAggregateMetric) =>
        LET others == SelectSeq(prevDataPoints,
                        LAMBDA p : prevHeap[p].Metric # lastRule.MetricName)
            fresh == {processedDataPoints[n] :
                        n \in (Len(others) + 1)..Len(processedDataPoints)}
        IN /\ Len(processedDataPoints) >= Len(others)
           /\ SubSeq(processedDataPoints, 1, Len(others)) = others
           /\ \A p \in DOMAIN prevHeap : heap[p] = prevHeap[p]
           /\ fresh \cap DOMAIN prevHeap = {}
           /\ Cardinality(fresh) = Len(processedDataPoints) - Len(others)
           /\ Cardinality(fresh) = Cardinality(GroupKeys)
           /\ \A p \in fresh :
                 /\ heap[p].Metric = lastRule.MetricName
                 /\ \E k \in Eligible :
                        /\ CompositeKey(heap[p]) = CompositeKey(Before[k])
                        /\ heap[p].Timestamp = Before[k].Timestamp
           /\ MatchingAt = {} =>
                 (processedDataPoints = prevDataPoints /\ heap = prevHeap)

\* a non-matching point standing between two matching points, one of which
\* lacks a configured key, has been moved in front of the one aggregated point
C8_Witness ==
    /\ AfterCase(ActionAggregateMetric)
    /\ Len(Before) = 3
    /\ MatchingAt = {1, 3}
    /\ Eligible = {1}
    /\ processedDataPoints[1] = prevDataPoints[2]
    /\ Len(processedDataPoints) = 2
    /\ processedDataPoints[2] \notin DOMAIN prevHeap

---------------------------------------------------------------------------
(* Vocabulary of the calculate_new_metric properties; read in a state       *)
(* where AfterCase(ActionCalculateNewMetric) holds.                         *)

Max(S) == CHOOSE x \in S : \A y \in S : x >= y

\* positions in the batch before the step of the points named operand-1 / operand-2
Operand1At == {k \in DOMAIN Before : Before[k].Metric = lastRule.Operand1Metric}

Operand2At == {k \in DOMAIN Before : Before[k].Metric = lastRule.Operand2Metric}

HoldsInt(dp) == dp.Value.IntValue # Nil

IntOf(dp) == Deref(dp.Value.IntValue)

\* the step has appended exactly one point: the target name, o1's dimensions
\* and timestamp, and the single float value float64(o1) / float64(o2), which
\* is the exact quotient whenever that is a float64
AppendedQuotient(o1, o2) ==
    /\ Len(processedDataPoints) = Len(prevDataPoints) + 1
    /\ SubSeq(processedDataPoints, 1, Len(prevDataPoints)) = prevDataPoints
    /\ \A p \in DOMAIN prevHeap : heap[p] = prevHeap[p]
    /\ processedDataPoints[Len(processedDataPoints)] \notin DOMAIN prevHeap
    /\ LET newPt == After[Len(After)]
       IN /\ newPt.Metric = lastRule.MetricName
          /\ newPt.Dimensions = o1.Dimensions
          /\ newPt.Timestamp = o1.Timestamp
          /\ newPt.Value.IntValue = Nil
          /\ newPt.Value.DoubleValue # Nil
          /\ Deref(newPt.Value.DoubleValue)[2] > 0
          /\ newPt.Value.DoubleValue =
                Ptr(FloatDiv(FloatOfInt(IntOf(o1)), FloatOfInt(IntOf(o2))))
          /\ (/\ Abs(IntOf(o1)) <= Pow2(FloatPrecision)
              /\ IntOf(o2) \in {1, 2, 4, 0 - 1, 0 - 2, 0 - 4}) =>
                    Deref(newPt.Value.DoubleValue)[1] * IntOf(o2)
                        = IntOf(o1) * Deref(newPt.Value.DoubleValue)[2]

(* C9 as stated: the step uses the FIRST point named operand-1 and the      *)
(* FIRST point named operand-2; when both exist, both hold integers and     *)
(* operand-2's integer is non-zero, it appends exactly one point with the   *)
(* target name, operand-1's dimensions and timestamp and the float value    *)
(* operand-1 / operand-2 without truncation.                                *)
C9_FirstOperands ==
    (/\ AfterCase(ActionCalculateNewMetric)
     /\ Operand1At # {}
     /\ Operand2At # {}
     /\ HoldsInt(Before[Min(Operand1At)])
     /\ HoldsInt(Before[Min(Operand2At)])
     /\ IntOf(Before[Min(Operand2At)]) # 0)
        => AppendedQuotient(Before[Min(Operand1At)], Before[Min(Operand2At)])

(* C9 as amended: the step uses the LAST point named operand-1 and the      *)
(* LAST point named operand-2 among the points not named operand-1; when    *)
(* both exist, both hold integers and operand-2's integer is non-zero, it   *)
(* appends exactly one point at the end of the batch with the target name,  *)
(* operand-1's dimensions and timestamp and the single float value          *)
(* operand-1 / operand-2 without truncation (10 and 4 give 2.5).            *)
C9_LastOperands ==
    LET operand2At == Operand2At \ Operand1At
    IN (/\ AfterCase(ActionCalculateNewMetric)
        /\ Operand1At # {}
        /\ operand2At # {}
        /\ HoldsInt(Before[Max(Operand1At)])
        /\ HoldsInt(Before[Max(operand2At)])
        /\ IntOf(Before[Max(operand2At)]) # 0)
           => AppendedQuotient(Before[Max(Operand1At)], Before[Max(operand2At)])

\* with operand-1 points 7 and then 10 and the operand-2 point 4, the point
\* 10 / 4 = 2.5 with the dimensions of the point 10 has been appended
C9_Witness ==
    /\ AfterCase(ActionCalculateNewMetric)
    /\ Cardinality(Operand1At) = 2
    /\ Before[Min(Operand1At)].Value = Datum(Ptr(7), Nil)
    /\ Before[Max(Operand1At)].Value = Datum(Ptr(10), Nil)
    /\ Operand2At # {}
    /\ Len(After) = Len(Before) + 1
    /\ After[Len(After)].Metric = "r"
    /\ After[Len(After)].Value = Datum(Nil, Ptr(<<5, 2>>))
    /\ After[Len(After)].Dimensions = <<Dimension("k1", "x")>>

\* the step found no operand-1, no operand-2, an operand without an integer
\* or a zero operand-2 (the operands being those the scan leaves)
Skipped ==
    LET operand2At == Operand2At \ Operand1At
    IN \/ Operand1At = {}
       \/ operand2At = {}
       \/ ~HoldsInt(Before[Max(Operand1At)])
       \/ ~HoldsInt(Before[Max(operand2At)])
       \/ IntOf(Before[Max(operand2At)]) = 0

(* C10: when a calculate_new_metric step finds no operand-1 point, no       *)
(* operand-2 point, an operand without an integer value or an operand-2     *)
(* integer equal to zero, it appends nothing and leaves the batch exactly   *)
(* as it was, and the loop goes on: the rules after it are still applied.   *)
C10_SkipLeavesBatch ==
    /\ (AfterCase(ActionCalculateNewMetric) /\ Skipped) =>
            /\ processedDataPoints = prevDataPoints
            /\ heap = prevHeap
    /\ pc = "done" => ruleIdx = Len(rules) + 1
    /\ (pc = "done" /\ Len(rules) = 2
                    /\ rules[1].Action = ActionCalculateNewMetric
                    /\ rules[2] = FollowingRule) =>
            \A p \in InputNamed("u") :
                HoldsInt(heap0[p]) =>
                    heap[p].Value.IntValue = Ptr(WrapInt64(2 * IntOf(heap0[p])))

\* operand-2 was zero: nothing was appended, and the multiply_int rule after
\* the calculate_new_metric rule has doubled the operand-1 point
C10_Witness ==
    /\ pc = "done"
    /\ rules = <<CalculateRule("u", "t"), FollowingRule>>
    /\ Cardinality(InputNamed("t")) = 1
    /\ \A p \in InputNamed("t") : heap0[p].Value.IntValue = Ptr(0)
    /\ \E p \in InputNamed("u") :
            /\ heap0[p].Value.IntValue = Ptr(10)
            /\ heap[p].Value.IntValue = Ptr(20)
    /\ processedDataPoints = sfxDataPoints

---------------------------------------------------------------------------
(* Vocabulary of the copy_metrics properties; read in a state where         *)
(* AfterCase(ActionCopyMetrics) holds.                                      *)

\* the allow-set of the rule: the dimension values it maps to true
InAllowSet(r, v) == MapHas(r.DimensionValues, v) /\ MapGet(r.DimensionValues, v)

\* dp carries the filter dimension with an allowed value, in some dimension
CarriesAllowed(r, dp) ==
    \E k \in DOMAIN dp.Dimensions :
        /\ dp.Dimensions[k].Key = r.DimensionKey
        /\ InAllowSet(r, dp.Dimensions[k].Value)

\* the first dimension of dp with the filter key has an allowed value
FirstIsAllowed(r, dp) ==
    \E k \in DOMAIN dp.Dimensions :
        /\ dp.Dimensions[k].Key = r.DimensionKey
        /\ \A j \in 1..(k - 1) : dp.Dimensions[j].Key # r.DimensionKey
        /\ InAllowSet(r, dp.Dimensions[k].Value)

\* the positions of S in increasing order
RECURSIVE InOrder(_)
InOrder(S) == IF S = {} THEN <<>> ELSE <<Min(S)>> \o InOrder(S \ {Min(S)})

\* the step has appended, after the points that were in the batch and in the
\* order of their originals, one fresh point for each position of `originals`,
\* which has the original's timestamp and the name mapped from its name
CopiesAppended(originals) ==
    LET from == InOrder(originals)
    IN /\ Len(processedDataPoints) = Len(prevDataPoints) + Len(from)
       /\ SubSeq(processedDataPoints, 1, Len(prevDataPoints)) = prevDataPoints
       /\ \A j \in DOMAIN from :
            LET p == processedDataPoints[Len(prevDataPoints) + j]
            IN /\ p \notin DOMAIN prevHeap
               /\ \A i \in DOMAIN from :
                     i # j => processedDataPoints[Len(prevDataPoints) + i] # p
               /\ heap[p].Timestamp = Before[from[j]].Timestamp
               /\ heap[p].Metric = MapGet(lastRule.Mapping, Before[from[j]].Metric)

MatchedNames(r) ==
    CASE r.Action \in {ActionRenameMetrics, ActionCopyMetrics} -> DOMAIN Deref(r.Mapping)
      [] r.Action \in {ActionMultiplyInt, ActionDivideInt} -> DOMAIN Deref(r.ScaleFactorsInt)
      [] r.Action = ActionMultiplyFloat -> DOMAIN Deref(r.ScaleFactorsFloat)
      [] r.Action = ActionConvertValues -> DOMAIN Deref(r.TypesMapping)
      [] r.Action \in {ActionSplitMetric, ActionAggregateMetric} -> {r.MetricName}
      [] r.Action = ActionCalculateNewMetric -> {r.Operand1Metric, r.Operand2Metric}

\* the points the copy_metrics step that has just ended has appended
Copies == {processedDataPoints[n] :
            n \in (Len(prevDataPoints) + 1)..Len(processedDataPoints)}

(* C12: each point appended by a copy_metrics step is a fresh point equal   *)
(* to a point of the batch before the step in everything but the metric     *)
(* name, which is the name mapped from the original's, and no point that    *)
(* existed before the step is changed by it.  Copy and original share       *)
(* nothing: a later rule changes only the points whose names it looks for,  *)
(* so a rule looking for the original's name leaves the copy as it was and  *)
(* a rule looking for the copy's name leaves the original as it was.        *)
C12_DeepCopy ==
    /\ AfterCase(ActionCopyMetrics) =>
            /\ \A p \in DOMAIN prevHeap : heap[p] = prevHeap[p]
            /\ \A p \in Copies :
                    /\ p \notin DOMAIN prevHeap
                    /\ \E k \in DOMAIN Before :
                            /\ MapHas(lastRule.Mapping, Before[k].Metric)
                            /\ heap[p] = [Before[k] EXCEPT
                                    !.Metric = MapGet(lastRule.Mapping, Before[k].Metric)]
    /\ (/\ pc \in {"loop", "done"}
        /\ ruleIdx > 1
        /\ lastRule.Action # ActionRenameDimensionKeys) =>
            \A p \in DOMAIN prevHeap :
                prevHeap[p].Metric \notin MatchedNames(lastRule) => heap[p] = prevHeap[p]

\* a was copied to c and multiply_int {a: 2} followed: the original is 10,
\* its copy still 5
C12_Witness ==
    /\ AfterCase(ActionMultiplyInt)
    /\ calls = 1
    /\ rules[1] = CopyAllRule
    /\ \E p \in DOMAIN heap0, q \in DOMAIN heap \ DOMAIN heap0 :
            /\ heap0[p] = DataPoint("a", 1, "", <<Dimension("k1", "x"),
                                                   Dimension("k2", "y")>>, IntDatum(5))
            /\ heap[p] = [heap0[p] EXCEPT !.Value = IntDatum(10)]
            /\ heap[q] = [heap0[p] EXCEPT !.Metric = "c"]

---------------------------------------------------------------------------
(* Vocabulary of the split_metric properties; read in a state where         *)
(* AfterCase(ActionSplitMetric) holds.  The step works in place: the point  *)
(* at position k before the step is the point at position k after it.      *)

\* the indices of the dimensions of dp with the configured key
KeyAt(r, dp) == {i \in DOMAIN dp.Dimensions : dp.Dimensions[i].Key = r.DimensionKey}

\* those of them whose value is a key of the mapping
MappedAt(r, dp) == {i \in KeyAt(r, dp) : MapHas(r.Mapping, dp.Dimensions[i].Value)}

\* the sequence q without its i-th element
RemoveAt(q, i) == SubSeq(q, 1, i - 1) \o SubSeq(q, i + 1, Len(q))

(* C13: for a point named as the split_metric rule's metric name whose      *)
(* dimensions contain the configured key with a value that is a mapping     *)
(* key, the step renames the metric to the target mapped from the first     *)
(* such dimension and removes exactly that one dimension, keeping every     *)
(* other dimension in its original order, also when the key occurs more     *)
(* than once (the first match wins).                                        *)
C13_FirstMatchWins ==
    AfterCase(ActionSplitMetric) =>
        /\ processedDataPoints = prevDataPoints
        /\ \A k \in DOMAIN Before :
              (/\ Before[k].Metric = lastRule.MetricName
               /\ MappedAt(lastRule, Before[k]) # {}) =>
                    LET i == Min(MappedAt(lastRule, Before[k]))
                    IN /\ After[k].Metric =
                            MapGet(lastRule.Mapping, Before[k].Dimensions[i].Value)
                       /\ After[k].Dimensions = RemoveAt(Before[k].Dimensions, i)
                       /\ After[k].Value = Before[k].Value
                       /\ After[k].Timestamp = Before[k].Timestamp

---------------------------------------------------------------------------
(* C15: after a rename_dimension_keys step the key of every dimension of    *)
(* every point, duplicate keys included, is TranslateDimension of its key   *)
(* before the step (the mapped key when the old key is in the mapping, the  *)
(* old key otherwise), while the dimension values, their number and order   *)
(* and everything else in the batch are as before; TranslateDimension       *)
(* answers with the mapping of the engine's rename_dimension_keys rule, and *)
(* is the identity on every name for an engine without such a rule.         *)
C15_RenameDimensionKeys ==
    /\ AfterCase(ActionRenameDimensionKeys) =>
            /\ processedDataPoints = prevDataPoints
            /\ DOMAIN heap = DOMAIN prevHeap
            /\ \A k \in DOMAIN Before :
                    After[k] = [Before[k] EXCEPT !.Dimensions =
                        [i \in DOMAIN Before[k].Dimensions |->
                            Dimension(TranslateDimension(Deref(mp), Before[k].Dimensions[i].Key),
                                      Before[k].Dimensions[i].Value)]]
            /\ \A k \in DOMAIN Before : \A i \in DOMAIN Before[k].Dimensions :
                    After[k].Dimensions[i].Key =
                        IF MapHas(lastRule.Mapping, Before[k].Dimensions[i].Key)
                        THEN MapGet(lastRule.Mapping, Before[k].Dimensions[i].Key)
                        ELSE Before[k].Dimensions[i].Key
    /\ translated # Nil =>
            LET orig == Deref(translated)[1]
                result == Deref(translated)[2]
                at == RenameDimensionKeysAt(rules)
            IN /\ at = {} => result = orig
               /\ \A k \in at :
                    result = IF MapHas(rules[k].Mapping, orig)
                             THEN MapGet(rules[k].Mapping, orig) ELSE orig

\* with the mapping k1 -> k2, k2 -> k3 the point {k1=x, k1=w} has become
\* {k2=x, k2=w}, and TranslateDimension("k2") has answered k3
C15_Witness ==
    /\ AfterCase(ActionRenameDimensionKeys)
    /\ pc = "done"
    /\ calls = 1
    /\ lastRule.Mapping = Map2("k1", "k2", "k2", "k3")
    /\ \E k \in DOMAIN Before :
            /\ Before[k].Dimensions = <<Dimension("k1", "x"), Dimension("k1", "w")>>
            /\ After[k].Dimensions = <<Dimension("k2", "x"), Dimension("k2", "w")>>
    /\ translated = Ptr(<<"k2", "k3">>)

\* the engine has only a rename_dimension_keys rule and has been run again
\* on the batch its previous run returned
RenamedTwice ==
    /\ pc = "done"
    /\ calls >= 2
    /\ Len(rules) = 1
    /\ rules[1].Action = ActionRenameDimensionKeys

\* the second run has changed nothing
SameAsOnce == heap = heap0 /\ processedDataPoints = sfxDataPoints

(* C16 as stated: rename_dimension_keys is idempotent, applying it twice in *)
(* sequence yields the same result as once, for any mapping that does not   *)
(* map a new key back onto an old one (no new key is mapped by the mapping  *)
(* onto one of its keys).                                                   *)
C16_IdempotentUnlessMappedBack ==
    LET m == Deref(rules[1].Mapping)
    IN (RenamedTwice /\ \A k \in DOMAIN m : m[k] \in DOMAIN m => m[m[k]] \notin DOMAIN m)
            => SameAsOnce

(* C16 as amended: rename_dimension_keys is idempotent, applying it twice   *)
(* in sequence yields the same result as once, for any mapping that maps no *)
(* new key further: every new key is either not a key of the mapping or is  *)
(* mapped to itself.                                                        *)
C16_IdempotentIfStable ==
    LET m == Deref(rules[1].Mapping)
    IN (RenamedTwice /\ \A k \in DOMAIN m : m[k] \in DOMAIN m => m[m[k]] = m[k])
            => SameAsOnce

\* with the mapping k1 -> k2 the second run has found {k2=x, k2=y}, made of
\* {k1=x, k2=y} by the first, and has left it so
C16_Witness ==
    /\ RenamedTwice
    /\ rules[1].Mapping = Map1("k1", "k2")
    /\ SameAsOnce
    /\ \E k \in DOMAIN After :
            /\ After[k].Timestamp = 1
            /\ After[k].Dimensions = <<Dimension("k2", "x"), Dimension("k2", "y")>>

---------------------------------------------------------------------------
\* a multiply_int step and then a divide_int step have just run, and p is an
\* integer-valued point of the call's batch whose metric has the same factor
\* in both tables
RoundTrip(p) ==
    /\ AfterCase(ActionDivideInt)
    /\ ruleIdx = 3
    /\ rules[1].Action = ActionMultiplyInt
    /\ p \in Range(sfxDataPoints)
    /\ HoldsInt(heap0[p])
    /\ MapHas(rules[1].ScaleFactorsInt, heap0[p].Metric)
    /\ MapHas(rules[2].ScaleFactorsInt, heap0[p].Metric)
    /\ MapGet(rules[1].ScaleFactorsInt, heap0[p].Metric)
            = MapGet(rules[2].ScaleFactorsInt, heap0[p].Metric)

\* the product of p's integer and its factor, as a mathematical integer
Product(p) == IntOf(heap0[p]) * MapGet(rules[1].ScaleFactorsInt, heap0[p].Metric)

(* C17 as stated: for every integer-valued point whose metric is in both    *)
(* tables, multiply_int followed by divide_int with the same non-zero       *)
(* factor restores the original integer value, for every int64 value and    *)
(* factor.                                                                  *)
C17_RoundTripAlways ==
    \A p \in DOMAIN heap0 : RoundTrip(p) => heap[p] = heap0[p]

(* C17 as amended: for every integer-valued point whose metric is in both   *)
(* tables, multiply_int followed by divide_int with the same non-zero       *)
(* factor restores the original integer value whenever the product of the   *)
(* value and the factor is within the int64 range (the multiplication does  *)
(* not overflow); the value between the two steps is that product.          *)
C17_RoundTripWithoutOverflow ==
    \A p \in DOMAIN heap0 :
        (RoundTrip(p) /\ Product(p) >= MinInt64 /\ Product(p) <= MaxInt64) =>
            /\ heap[p] = heap0[p]
            /\ prevHeap[p].Value = IntDatum(Product(p))

\* 5 has become 15 under multiply_int {m: 3} and 5 again under divide_int
\* {m: 3}, and -7 has gone through 14 back to -7 under the factor -2
C17_Witness ==
    \E p \in DOMAIN heap0 :
        /\ RoundTrip(p)
        /\ calls = 1
        /\ \/ /\ heap0[p].Value = IntDatum(5)
              /\ prevHeap[p].Value = IntDatum(15)
              /\ heap[p].Value = IntDatum(5)
           \/ /\ heap0[p].Value = IntDatum(0 - 7)
              /\ prevHeap[p].Value = IntDatum(14)
              /\ heap[p].Value = IntDatum(0 - 7)

---------------------------------------------------------------------------
(* Vocabulary of the convert_values properties; read in a state where       *)
(* AfterCase(ActionConvertValues) holds.                                    *)

\* the type requested for dp ("" when its metric is not in the table)
Requested(dp) ==
    IF MapHas(lastRule.TypesMapping, dp.Metric)
    THEN MapGet(lastRule.TypesMapping, dp.Metric) ELSE ""

\* the float x = <<num, den>> truncated toward zero, as a mathematical integer
Truncated(x) == TruncDiv(x[1], x[2])

\* the step has left alone every point whose metric is not in the table or
\* whose value does not hold the source representation of the requested type
ConvertFrame ==
    /\ processedDataPoints = prevDataPoints
    /\ DOMAIN heap = DOMAIN prevHeap
    /\ \A k \in DOMAIN Before :
          (\/ Requested(Before[k]) = ""
           \/ Requested(Before[k]) = "int" /\ Before[k].Value.DoubleValue = Nil
           \/ Requested(Before[k]) = "double" /\ Before[k].Value.IntValue = Nil) =>
                After[k] = Before[k]
    /\ \A k \in DOMAIN Before : After[k] = [Before[k] EXCEPT !.Value = After[k].Value]

(* C18 as stated: a convert_values step changes a point only when its       *)
(* metric is in the type table and its value holds the source               *)
(* representation: requesting int on a point holding a float replaces the   *)
(* value by an integer-only value, the float truncated toward zero;         *)
(* requesting double on a point holding an integer replaces it by a         *)
(* float-only value equal to that integer; otherwise the point is unchanged.*)
C18_ConvertExact ==
    AfterCase(ActionConvertValues) =>
        /\ ConvertFrame
        /\ \A k \in DOMAIN Before :
              /\ (Requested(Before[k]) = "int" /\ Before[k].Value.DoubleValue # Nil) =>
                    After[k].Value =
                        Datum(Ptr(Truncated(Deref(Before[k].Value.DoubleValue))), Nil)
              /\ (Requested(Before[k]) = "double" /\ Before[k].Value.IntValue # Nil) =>
                    After[k].Value = Datum(Nil, Ptr(<<IntOf(Before[k]), 1>>))

(* C18 as amended: as stated, but the integer is the float truncated toward *)
(* zero when that is within the int64 range (otherwise it is some int64),   *)
(* and the float equals the integer when the integer fits in the float64    *)
(* significand (otherwise it is the integer rounded, off by at most one     *)
(* part in 2^FloatPrecision).                                               *)
C18_ConvertInRange ==
    AfterCase(ActionConvertValues) =>
        /\ ConvertFrame
        /\ \A k \in DOMAIN Before :
              /\ (Requested(Before[k]) = "int" /\ Before[k].Value.DoubleValue # Nil) =>
                    LET t == Truncated(Deref(Before[k].Value.DoubleValue))
                    IN /\ After[k].Value.DoubleValue = Nil
                       /\ After[k].Value.IntValue # Nil
                       /\ IntOf(After[k]) \in MinInt64..MaxInt64
                       /\ t \in MinInt64..MaxInt64 => IntOf(After[k]) = t
              /\ (Requested(Before[k]) = "double" /\ Before[k].Value.IntValue # Nil) =>
                    LET n == IntOf(Before[k])
                        x == Deref(After[k].Value.DoubleValue)
                    IN /\ After[k].Value.IntValue = Nil
                       /\ After[k].Value.DoubleValue # Nil
                       /\ x[2] > 0
                       /\ Abs(n) <= Pow2(FloatPrecision) => x = <<n, 1>>
                       /\ Abs(x[1] - n * x[2]) * Pow2(FloatPrecision) <= Abs(n) * x[2]

\* a = -3.5 has become the integer -3 and b = -7 the float -7, while o (not
\* in the table) is as before
C18_Witness ==
    /\ AfterCase(ActionConvertValues)
    /\ calls = 1
    /\ [k \in DOMAIN Before |-> Before[k].Timestamp] = <<2, 5, 8>>
    /\ After[1].Value = IntDatum(0 - 3)
    /\ After[2].Value = Datum(Nil, Ptr(<<0 - 7, 1>>))
    /\ After[3] = Before[3]

---------------------------------------------------------------------------
(* The value union *)

\* at most one of the two fields of the value of dp is set
AtMostOne(dp) == dp.Value.IntValue = Nil \/ dp.Value.DoubleValue = Nil

\* every point of the batch handed to TranslateDataPoints has at most one set
InputAtMostOne == \A k \in DOMAIN sfxDataPoints : AtMostOne(heap0[sfxDataPoints[k]])

\* the last step was an aggregate_metric sum
AfterSum ==
    /\ AfterCase(ActionAggregateMetric)
    /\ lastRule.AggregationMethod = AggregationMethodSum

\* the group with this composite key holds an integer-valued and a
\* float-valued point
MixedGroup(key) ==
    /\ \E k \in GroupOf(key) : Before[k].Value.IntValue # Nil
    /\ \E k \in GroupOf(key) : Before[k].Value.DoubleValue # Nil

\* some rule applied so far is an aggregate_metric sum
SumApplied ==
    \E k \in 1..(ruleIdx - 1) :
        /\ Deref(mp).rules[k].Action = ActionAggregateMetric
        /\ Deref(mp).rules[k].AggregationMethod = AggregationMethodSum

(* C19 as stated: the value of every data point has at most one of          *)
(* {integer, floating-point} set: if every point of the input batch         *)
(* satisfies this, every point of the working batch after any sequence of   *)
(* validated rules satisfies it too.                                        *)
C19_AtMostOneAlways ==
    (pc \in {"loop", "done"} /\ InputAtMostOne) =>
        \A k \in DOMAIN After : AtMostOne(After[k])

(* C19 as amended: if every point of the input batch has at most one field  *)
(* set, so has every point of the working batch after any sequence of       *)
(* validated rules without an aggregate_metric sum; and every rule applied  *)
(* to a batch whose points have at most one field set leaves such a batch, *)
(* except that an aggregate_metric sum over a group holding both an        *)
(* integer-valued and a float-valued point yields a point with both set.   *)
C19_AtMostOneUnlessMixedSum ==
    /\ (pc \in {"loop", "done"} /\ InputAtMostOne /\ ~SumApplied) =>
            \A k \in DOMAIN After : AtMostOne(After[k])
    /\ (pc \in {"loop", "done"} /\ ruleIdx > 1
            /\ \A k \in DOMAIN Before : AtMostOne(Before[k])) =>
            \A k \in DOMAIN After :
                \/ AtMostOne(After[k])
                \/ /\ AfterSum
                   /\ k > NumOthers
                   /\ CompositeKey(After[k]) \in GroupKeys
                   /\ MixedGroup(CompositeKey(After[k]))
    /\ AfterSum =>
            \A key \in GroupKeys :
                MixedGroup(key) =>
                    \E k \in DOMAIN After :
                        /\ k > NumOthers
                        /\ CompositeKey(After[k]) = key
                        /\ ~AtMostOne(After[k])

\* a sum over a float-only group and an integer-only group has left a
\* float-only and an integer-only point
C19_Witness ==
    /\ AfterSum
    /\ InputAtMostOne
    /\ Len(Before) = 2
    /\ Len(After) = 2
    /\ \E k \in DOMAIN After : After[k].Value = FloatDatum(5, 2)
    /\ \E k \in DOMAIN After : After[k].Value = IntDatum(3)

---------------------------------------------------------------------------
(* Termination *)

\* the working batch is a slice of allocated points
ReturnsBatch == \A k \in DOMAIN processedDataPoints : processedDataPoints[k] \in DOMAIN heap

(* C20: TranslateDataPoints runs to completion and returns a batch for      *)
(* every finite input batch and every validated rule list: no iteration     *)
(* aborts the batch (on missing data, type mismatch or unmet filters) and   *)
(* a call that has entered the loop returns, having visited every rule; a   *)
(* copy_metrics rule whose target is itself a mapping key (a->a) appends    *)
(* at most one copy per point of the batch it started from and stops.       *)
C20_RunsToCompletion ==
    /\ [](pc # "panic")
    /\ [](pc \in {"loop", "done"} => ReturnsBatch)
    /\ [](pc = "done" => ruleIdx = Len(Deref(mp).rules) + 1)
    /\ [](AfterCase(ActionCopyMetrics) =>
            /\ Len(processedDataPoints) <= 2 * Len(prevDataPoints)
            /\ SubSeq(processedDataPoints, 1, Len(prevDataPoints)) = prevDataPoints)
    /\ [][pc = "loop" => (pc' = "done" \/ (pc' = "loop" /\ ruleIdx' = ruleIdx + 1))]_vars
    /\ (pc = "loop") ~> (pc = "done")

\* copy a->a, rename a->b, then c = a / b with no a left: the call has
\* returned the six points, the three copies and no c
C20_Witness ==
    /\ pc = "done"
    /\ rules = <<CopySelfRule, RenameMetricsRule, CalculateNewMetricRule>>
    /\ Len(processedDataPoints) = Len(sfxDataPoints) + 3
    /\ \A k \in DOMAIN After : After[k].Metric = "b"

---------------------------------------------------------------------------
(* Vocabulary of the concurrency property; read in a state of               *)
(* ConcurrentSpec.                                                          *)

\* the other goroutine
Other(g) == CHOOSE h \in Goroutines : h # g

\* the batch g was given (cell c of the backing store holds the address c
\* when the calls start)
InputOf(g) ==
    [k \in 1..goroutine[g].sfxDataPoints.len |-> goroutine[g].sfxDataPoints.off + k]

\* the points of g: those of the batch it was given and those it allocated
PointsOf(g) == Range(InputOf(g)) \cup goroutine[g].allocated

\* the addresses of the points the next step of g reads or writes
AccessedNext(g) ==
    CASE goroutine[g].pc = "range" /\ goroutine[g].i <= goroutine[g].ranged.len ->
            {Elem(goroutine[g].ranged, goroutine[g].i)}
      [] goroutine[g].pc = "elem" -> {Deref(goroutine[g].dp)}
      [] goroutine[g].pc = "visit" /\ trOf(g).Action \in InPlaceActions ->
            {Deref(goroutine[g].dp)}
      [] goroutine[g].pc = "operand1" -> {goroutine[g].operand1} \ {0}
      [] goroutine[g].pc = "operand2" -> {goroutine[g].operand2} \ {0}
      [] goroutine[g].pc = "aggregate"
            /\ goroutine[g].i <= Len(goroutine[g].dpsToAggregate) ->
            {goroutine[g].dpsToAggregate[goroutine[g].i]}
      [] OTHER -> {}

\* the contents of the batches TranslateDataPoints can return when it is
\* called alone on the batch given to g
AloneResults(g) ==
    {Points(r.heap, r.dps) :
        r \in ApplyInOrder(Deref(mp).rules, 1, {[heap |-> heap0, dps |-> InputOf(g)]})}

\* the engine as NewMetricTranslator built it
EngineAsBuilt == mp = Ptr([rules |-> rules, dimensionsMap |-> createDimensionsMap(rules)])

\* the calls are safe in this state: each is about to access, and holds in
\* its working slice, points of its own only, and a call that has returned
\* has returned what it returns alone
SafeNow ==
    /\ EngineAsBuilt
    /\ \A g \in Goroutines :
            /\ AccessedNext(g) \subseteq PointsOf(g)
            /\ PointsOf(g) \cap PointsOf(Other(g)) = {}
            /\ goroutine[g].pc \notin {"call"} =>
                    Range(Elems(goroutine[g].processedDataPoints)) \subseteq PointsOf(g)
            /\ goroutine[g].pc = "done" =>
                    Points(heap, Elems(goroutine[g].processedDataPoints)) \in AloneResults(g)

\* this step leaves the engine as it is, and the points of every call that
\* does not take it
SafeStep ==
    /\ rules' = rules
    /\ mp' = mp
    /\ \A g \in Goroutines :
            goroutine'[g] = goroutine[g] => \A a \in PointsOf(g) : heap'[a] = heap[a]

\* the slices given to the two calls have no cell of a backing array in
\* common, within their capacities
SeparateArrays ==
    Cells(goroutine[1].sfxDataPoints) \cap Cells(goroutine[2].sfxDataPoints) = {}

(* C21 as stated: concurrent TranslateDataPoints calls on the same engine   *)
(* over disjoint batches are safe: under every interleaving of their reads  *)
(* and writes, neither call writes the rule list, a rule's tables or the    *)
(* dimension lookup, neither touches the other's points, and each call      *)
(* returns the batch contents it would return when run alone.               *)
C21_DisjointBatchesSafe ==
    /\ [](pc = "ready" => SafeNow)
    /\ [][pc = "ready" => SafeStep]_vars

(* C21 as amended: as stated, for batches whose slices have no cell of a    *)
(* backing array in common within their capacities (two slices of one       *)
(* array, the first with the second within its capacity, are excluded).     *)
C21_SeparateArraysSafe ==
    /\ []((pc = "ready" /\ SeparateArrays) => SafeNow)
    /\ [][(pc = "ready" /\ SeparateArrays) => SafeStep]_vars

\* two calls on slices of two arrays have interleaved: the first is between
\* the read and the write of a point, the second has written one of its own
C21_Witness ==
    /\ pc = "ready"
    /\ SeparateArrays
    /\ rules = <<RenameMetricsRule, MultiplyIntRule>>
    /\ goroutine[1].pc = "visit"
    /\ goroutine[1].ruleIdx = 2
    /\ goroutine[2].pc = "range"
    /\ goroutine[2].ruleIdx = 2
    /\ goroutine[2].i = 2
    /\ \E a \in PointsOf(2) : heap[a].Value # heap0[a].Value

---------------------------------------------------------------------------
(* Vocabulary of the grouping property; read in a state where               *)
(* AfterCase(ActionAggregateMetric) holds.                                  *)

\* dp carries every configured dimension key exactly once
CarriesOnce(dp) ==
    \A j \in DOMAIN lastRule.Dimensions :
        Cardinality({k \in DOMAIN dp.Dimensions :
                        dp.Dimensions[k].Key = lastRule.Dimensions[j]}) = 1

\* the values of dp for the configured dimension keys, in their order
ValuesOf(dp) ==
    [j \in DOMAIN lastRule.Dimensions |->
        dp.Dimensions[CHOOSE k \in DOMAIN dp.Dimensions :
                        dp.Dimensions[k].Key = lastRule.Dimensions[j]].Value]

\* the eligible points that have the values of dp for every configured key
SameValues(dp) == {k \in Eligible : ValuesOf(Before[k]) = ValuesOf(dp)}

(* C23: in an aggregate_metric step, two matching points that each carry    *)
(* every configured dimension key are placed in the same group if and only  *)
(* if they have equal values for every configured key, whatever the values  *)
(* (with "//" in them, or empty): a count yields one point for each         *)
(* combination of values present, counting the points that have it.         *)
C23_GroupedIffEqualValues ==
    (/\ AfterCase(ActionAggregateMetric)
     /\ lastRule.AggregationMethod = AggregationMethodCount
     /\ \A k \in Eligible : CarriesOnce(Before[k])) =>
        /\ Len(Aggregated) = Cardinality({ValuesOf(Before[k]) : k \in Eligible})
        /\ \A k \in Eligible :
              \E n \in DOMAIN Aggregated :
                  /\ ValuesOf(Aggregated[n]) = ValuesOf(Before[k])
                  /\ Aggregated[n].Value.IntValue = Ptr(Cardinality(SameValues(Before[k])))

---------------------------------------------------------------------------
(* C22: grouping of the spans of one export call by trace ID                *)

RECURSIVE Concat(_)
Concat(ss) == IF ss = <<>> THEN <<>> ELSE Head(ss) \o Concat(Tail(ss))

\* the contents of the non-nil wrappers of a sequence, in order
NonNil(ps) == LET some == SelectSeq(ps, LAMBDA p : p # Nil)
              IN  [k \in DOMAIN some |-> Deref(some[k])]

\* the non-nil spans handed to the export call, in input order
InputSpans == NonNil(Concat(NonNil(Concat(NonNil(exporter.td)))))

\* the places <<group, position>> of the groups handed to sendTraces
Places == {<<g, p>> \in (DOMAIN exporter.traces) \X (1..MaxSpans + 1) :
                p \in DOMAIN exporter.traces[g]}

\* the places where the input span s appears (its span ID is its own)
PlacesOf(s) == {pl \in Places : exporter.traces[pl[1]][pl[2]].SpanID = s.SpanID}

\* the input span at a place
InputAt(pl) == CHOOSE n \in DOMAIN InputSpans :
                    InputSpans[n].SpanID = exporter.traces[pl[1]][pl[2]].SpanID

\* every non-nil input span is in exactly one place, as convertSpan
\* converts it, and there is nothing else in the groups; the groups are
\* ordered by the first appearance of their trace ID and the spans of a
\* group keep their input order
GroupedInOrder ==
    /\ \A n \in DOMAIN InputSpans :
            /\ Cardinality(PlacesOf(InputSpans[n])) = 1
            /\ \A pl \in PlacesOf(InputSpans[n]) :
                    exporter.traces[pl[1]][pl[2]]
                        = convertSpan(exporter.config.ServiceName, InputSpans[n]).span
    /\ Cardinality(Places) = Len(InputSpans)
    /\ \A g \in DOMAIN exporter.traces : exporter.traces[g] # <<>>
    /\ \A pl \in Places, pm \in Places :
            /\ (pl[1] = pm[1] /\ pl[2] < pm[2]) => InputAt(pl) < InputAt(pm)
            /\ (pl[1] < pm[1]) => InputAt(<<pl[1], 1>>) < InputAt(<<pm[1], 1>>)

\* input spans n and m are in the same group
SameTrace(n, m) ==
    \E pl \in PlacesOf(InputSpans[n]), pm \in PlacesOf(InputSpans[m]) : pl[1] = pm[1]

\* C22 as stated: when the push function has returned, the groups hold
\* every non-nil input span once, in order, and two input spans are in the
\* same group iff their trace IDs are equal
C22_GroupedByTraceID ==
    exporter # <<>> /\ exporter.pc = "done" =>
        /\ GroupedInOrder
        /\ \A n \in DOMAIN InputSpans, m \in DOMAIN InputSpans :
                SameTrace(n, m) <=> InputSpans[n].TraceID = InputSpans[m].TraceID

\* C22: when the push function has returned, the groups hold every non-nil
\* input span exactly once, ordered by first appearance of their trace ID
\* and in input order within a group, and two input spans are in the same
\* group iff the last 64 bits of their trace IDs are equal
C22_GroupedByLast64Bits ==
    exporter # <<>> /\ exporter.pc = "done" =>
        /\ GroupedInOrder
        /\ \A n \in DOMAIN InputSpans, m \in DOMAIN InputSpans :
                SameTrace(n, m) <=> InputSpans[n].TraceID[2] = InputSpans[m].TraceID[2]

\* an export call has grouped three spans: the first and the third, whose
\* trace IDs differ in their first 64 bits only, and the second between
\* them in a group of its own
C22_Witness ==
    /\ exporter # <<>>
    /\ exporter.pc = "done"
    /\ Len(InputSpans) = 3
    /\ InputSpans[1].TraceID # InputSpans[3].TraceID
    /\ InputSpans[1].TraceID[2] = InputSpans[3].TraceID[2]
    /\ InputSpans[1].TraceID[2] # InputSpans[2].TraceID[2]
    /\ Len(exporter.traces) = 2
    /\ Len(exporter.traces[1]) = 2
    /\ Len(exporter.traces[2]) = 1

---------------------------------------------------------------------------
(* C24: what the push function returns                                      *)

\* C24: the push function returns zero dropped spans and a nil error,
\* whatever sendTraces returned to it
C24_ReturnsZeroAndNil ==
    exporter # <<>> /\ exporter.pc = "done" =>
        /\ exporter.totalDroppedSpans = 0
        /\ exporter.err = "nil"

\* an export call has returned after sendTraces failed with spans to send
C24_Witness ==
    /\ exporter # <<>>
    /\ exporter.pc = "done"
    /\ Deref(exporter.sent).err # "nil"
    /\ Deref(exporter.sent).droppedSpans > 0
    /\ exporter.totalDroppedSpans = 0
    /\ exporter.err = "nil"

===========================================================================
